---- MODULE Spec2Model ----
(***************************************************************************)
(* Retrieval core of indu-v3: the search graph of lib/langGraph.ts          *)
(* (executeSearchGraph, executeNodeBranch, rankAndCombineResults) and the   *)
(* in-memory vector index of lib/vectorStore.ts.                            *)
(*                                                                         *)
(* Numbers.  A JavaScript score is a real in [-1, 1]; the model keeps it as *)
(* an integer count of thousandths (Scale), so 0.9 is 900.  Every input     *)
(* score is a multiple of 10, which makes s * 0.7 and s * 0.3 exact, and    *)
(* every embedding has an integer magnitude, which makes the cosine exact.  *)
(* IEEE-754 rounding error is not modelled.                                 *)
(***************************************************************************)
EXTENDS Integers, Sequences, FiniteSets, TLC

VARIABLES
    vectorIndex,    \* vectorStore.ts: the module-level array vectorIndex
    adding,         \* chunk ids an addToVectorStore call in flight has still to index
    addCall,        \* history: the number of chunks per document the latest
                    \* addToVectorStore call was given, and the documents that
                    \* had an index entry at the time of the call
    addResult,      \* the promise of the latest addToVectorStore call
    removed,        \* history: documents removed and not indexed again since
    lastRemoved,    \* history: number of entries the latest removeFromVectorStore dropped
    embeddingStore, \* storage.ts: the IndexedDB object store EMBEDDINGS_STORE
    loading,        \* initVectorStore: position of the call in flight
    searching,      \* search: the call awaiting generateEmbeddings
    searchOut,      \* search: the latest call that returned, with the index it read
    pc,             \* executeSearchGraph: position of the main control flow
    context,        \* executeSearchGraph: the local variable context
    visitedNodes,   \* executeSearchGraph: the local set visitedNodes
    branch,         \* one executeNodeBranch call per entry of branchPromises
    settledOrder,   \* history: branch nodes in the order their promises settled
    outcome,        \* the promise executeSearchGraph returned to its caller
    caught,         \* history: the main-loop nodes whose catch block ran
    fuseVector,     \* harness: the vectorResults argument of rankAndCombineResults
    fuseKeyword,    \* harness: the keywordResults argument
    fuseOut,        \* harness: the list rankAndCombineResults returned
    fusePc,         \* harness: "ready" before the call, "done" after it
    bloomTerm,      \* harness: the term argument of checkBloomFilter
    bloomFilter,    \* harness: the filter argument
    bloomAnswer,    \* harness: what checkBloomFilter returned
    bloomPc,        \* harness: "ready", "inserted" or "checked"
    manifest,       \* ShardedStorageManager: the field manifest
    db,             \* ShardedStorageManager: the field db
    metadataStore,  \* storage.ts: the value stored under 'shard_manifest'
    initializing,   \* initialize(): position of the call
    relevant,       \* the promise of the latest getRelevantShards call
    cache,          \* ShardedStorageManager: the Map cache, in insertion order
    shardStore,     \* IndexedDB: the records of the object store 'shard_cache'
    clock,          \* Date.now()
    loads,          \* one record per loadShard call
    hung,           \* the thread spins in the loop of updateCache
    keywordTable,   \* duckdb.ts: the rows of the table document_chunks
    keywordCall,    \* the latest keywordSearch call and what it resolved to
    searchStore,    \* useSearchStore: the state of the store
    handlers,       \* SearchBar: one record per handleSearch call
    issued,         \* history: the queries searched, in the order they were issued
    documentStore,  \* useDocumentStore: documents, selectedDocument and stats
    callerDocument, \* processFile: the document object passed to saveDocument
    savePc,         \* saveDocument: where the call is
    documentsStore, \* IndexedDB: the records of the object store 'documents'
    chunksStore     \* IndexedDB: the records of the object store 'chunks'

storeVars ==
    <<vectorIndex, adding, addCall, addResult, removed, lastRemoved, embeddingStore, loading,
      searching, searchOut>>

graphVars == <<pc, context, visitedNodes, branch, settledOrder, outcome, caught>>

fuseVars == <<fuseVector, fuseKeyword, fuseOut, fusePc>>

bloomVars == <<bloomTerm, bloomFilter, bloomAnswer, bloomPc>>

managerVars == <<manifest, db, metadataStore, initializing, relevant>>

cacheVars == <<cache, shardStore, clock, loads, hung>>

shardVars == <<bloomVars, managerVars, cacheVars>>

keywordVars == <<keywordTable, keywordCall>>

barVars == <<searchStore, handlers, issued>>

saveVars == <<callerDocument, savePc, documentsStore, chunksStore>>

uiVars == <<keywordVars, barVars, documentStore, saveVars>>

vars == <<storeVars, graphVars, fuseVars, shardVars, uiVars>>

(***************************************************************************)
(* Number representation                                                   *)
(***************************************************************************)
Scale == 1000

\* the value of a field that a JavaScript object does not have
Undefined == -1

\* Math.round(num / den) for den > 0: floor(x + 1/2), halves go up
MathRound(num, den) == (2 * num + den) \div (2 * den)

\* result.score * 0.7 (langGraph.ts:585)
VectorWeight == 7

\* result.score * 0.3 (langGraph.ts:594, 600)
KeywordWeight == 3

\* Math.round(result.score * 30) (langGraph.ts:601)
KeywordOnlyPercent == 30

Weighted(score, tenths) == (score * tenths) \div 10

Min(a, b) == IF a <= b THEN a ELSE b

(***************************************************************************)
(* Chunks, documents and embeddings                                         *)
(***************************************************************************)
ChunkIds == {"A", "B"}

DocOf(chunkId) == IF chunkId = "B" THEN "doc2" ELSE "doc1"

DocumentIds == {DocOf(c) : c \in ChunkIds}

\* Float32Array values; each has an integer magnitude (0, 1 or 5).  The query
\* embeddings have two components; <<1>> is an embedding of another dimension,
\* which addToVectorStore accepts (vectorStore.ts:58-76 has no length check)
Embeddings == {<<1, 0>>, <<-1, 0>>, <<3, 4>>, <<0, 0>>, <<1>>}

\* chunk.embedding when the chunk has none, and the null of getEmbedding; no
\* Float32Array of length 0 is among Embeddings, so the empty tuple is free
NoEmbedding == <<>>

(***************************************************************************)
(* cosineSimilarity and search (vectorStore.ts:86-148)                      *)
(***************************************************************************)
RECURSIVE DotProduct(_, _)
DotProduct(a, b) ==
    IF a = <<>> THEN 0 ELSE Head(a) * Head(b) + DotProduct(Tail(a), Tail(b))

\* Math.sqrt on a perfect square
Sqrt(n) == CHOOSE r \in 0..n : r * r = n

\* cosineSimilarity throws when the lengths differ (vectorStore.ts:126-128)
CosineThrows(a, b) == Len(a) # Len(b)

cosineSimilarity(a, b) ==
    LET dotProduct == DotProduct(a, b)
        magnitudeA == Sqrt(DotProduct(a, a))
        magnitudeB == Sqrt(DotProduct(b, b))
    IN  IF magnitudeA = 0 \/ magnitudeB = 0 THEN 0
        ELSE (dotProduct * Scale) \div (magnitudeA * magnitudeB)

\* a SearchResult as search builds it (vectorStore.ts:106-115); documentName,
\* documentType, text and metadata are copied through and left out here
SearchResult(item, score) ==
    [chunkId |-> item.chunkId, documentId |-> item.documentId, score |-> score,
     matchPercentage |-> MathRound(score * 100, Scale)]

(***************************************************************************)
(* rankAndCombineResults (langGraph.ts:574-608)                             *)
(* resultMap is a JavaScript Map: a sequence of entries with distinct       *)
(* chunkId, in insertion order; set() on a present key keeps its position.  *)
(***************************************************************************)
MapHas(resultMap, chunkId) ==
    \E i \in 1..Len(resultMap) : resultMap[i].chunkId = chunkId

MapIndex(resultMap, chunkId) ==
    CHOOSE i \in 1..Len(resultMap) : resultMap[i].chunkId = chunkId

\* slip: set() adds an entry also for a key that is present
MapSet_Append(resultMap, chunkId, value) == Append(resultMap, value)

MapSet(resultMap, chunkId, value) ==
    IF MapHas(resultMap, chunkId)
    THEN [resultMap EXCEPT ![MapIndex(resultMap, chunkId)] = value]
    ELSE Append(resultMap, value)

\* slip: the vector score is copied without its weight
AddVectorResult_Unweighted(resultMap, result) ==
    MapSet(resultMap, result.chunkId, result)

\* the body of vectorResults.forEach (langGraph.ts:582-587)
AddVectorResult(resultMap, result) ==
    MapSet(resultMap, result.chunkId,
           [result EXCEPT !.score = Weighted(result.score, VectorWeight)])

\* slip: a keyword hit replaces the entry instead of blending into it
AddKeywordResult_Overwrite(resultMap, result) ==
    MapSet(resultMap, result.chunkId,
           [result EXCEPT !.score = Weighted(result.score, KeywordWeight),
                          !.matchPercentage =
                              MathRound(result.score * KeywordOnlyPercent, Scale)])

\* the body of keywordResults.forEach (langGraph.ts:590-604)
AddKeywordResult(resultMap, result) ==
    IF MapHas(resultMap, result.chunkId)
    THEN LET existing == resultMap[MapIndex(resultMap, result.chunkId)]
             blended  == existing.score + Weighted(result.score, KeywordWeight)
         IN  MapSet(resultMap, result.chunkId,
                    [existing EXCEPT !.score = blended,
                                     !.matchPercentage = MathRound(blended * 100, Scale)])
    ELSE MapSet(resultMap, result.chunkId,
                [result EXCEPT !.score = Weighted(result.score, KeywordWeight),
                               !.matchPercentage =
                                   MathRound(result.score * KeywordOnlyPercent, Scale)])

RECURSIVE VectorPass(_, _)
VectorPass(resultMap, vectorResults) ==
    IF vectorResults = <<>> THEN resultMap
    ELSE VectorPass(AddVectorResult(resultMap, Head(vectorResults)), Tail(vectorResults))

RECURSIVE KeywordPass(_, _)
KeywordPass(resultMap, keywordResults) ==
    IF keywordResults = <<>> THEN resultMap
    ELSE KeywordPass(AddKeywordResult(resultMap, Head(keywordResults)), Tail(keywordResults))

\* slip: an unstable sort that puts the later of two equal scores first
RECURSIVE InsertByScore_TiesReversed(_, _)
InsertByScore_TiesReversed(sorted, x) ==
    IF sorted = <<>> THEN <<x>>
    ELSE IF Head(sorted).score > x.score
         THEN <<Head(sorted)>> \o InsertByScore_TiesReversed(Tail(sorted), x)
         ELSE <<x>> \o sorted

\* Array.prototype.sort((a, b) => b.score - a.score): stable, descending
RECURSIVE InsertByScore(_, _)
InsertByScore(sorted, x) ==
    IF sorted = <<>> THEN <<x>>
    ELSE IF Head(sorted).score >= x.score
         THEN <<Head(sorted)>> \o InsertByScore(Tail(sorted), x)
         ELSE <<x>> \o sorted

RECURSIVE SortByScoreDesc(_)
SortByScoreDesc(list) ==
    IF list = <<>> THEN <<>>
    ELSE InsertByScore(SortByScoreDesc(SubSeq(list, 1, Len(list) - 1)), list[Len(list)])

rankAndCombineResults(vectorResults, keywordResults) ==
    SortByScoreDesc(KeywordPass(VectorPass(<<>>, vectorResults), keywordResults))


(***************************************************************************)
(* rankAndCombineResults and the objects of its input lists.  The lists     *)
(* hold references to objects; heap is the sequence of the objects, the     *)
(* vector results first, then the keyword results; the map holds            *)
(* references too.                                                          *)
(***************************************************************************)
\* slip: the input object itself is changed and put in the map
ObjectSpread_InPlace(heap, ref, changed) ==
    [heap |-> [heap EXCEPT ![ref] = changed], ref |-> ref]

\* { ...result, score: ... }: a new object with the changed properties; the
\* object spread from is not written (langGraph.ts:583-586, 598-602)
ObjectSpread(heap, ref, changed) ==
    [heap |-> Append(heap, changed), ref |-> Len(heap) + 1]

MapEntry(chunkId, ref) == [chunkId |-> chunkId, ref |-> ref]

\* the body of vectorResults.forEach on the object at ref
HeapAddVectorResult(st, ref) ==
    LET result == st.heap[ref]
        spread == ObjectSpread(st.heap, ref,
                               [result EXCEPT !.score = Weighted(result.score, VectorWeight)])
    IN  [heap |-> spread.heap,
         map  |-> MapSet(st.map, result.chunkId, MapEntry(result.chunkId, spread.ref))]

\* the body of keywordResults.forEach on the object at ref: existing is the
\* object the map refers to, and its properties are assigned in place
\* (langGraph.ts:591-603)
HeapAddKeywordResult(st, ref) ==
    LET result == st.heap[ref]
    IN  IF MapHas(st.map, result.chunkId)
        THEN LET existingRef == st.map[MapIndex(st.map, result.chunkId)].ref
                 existing    == st.heap[existingRef]
                 blended     == existing.score + Weighted(result.score, KeywordWeight)
             IN  [heap |-> [st.heap EXCEPT ![existingRef] =
                               [existing EXCEPT !.score = blended,
                                                !.matchPercentage =
                                                    MathRound(blended * 100, Scale)]],
                  map  |-> MapSet(st.map, result.chunkId,
                                  MapEntry(result.chunkId, existingRef))]
        ELSE LET spread == ObjectSpread(st.heap, ref,
                               [result EXCEPT
                                   !.score = Weighted(result.score, KeywordWeight),
                                   !.matchPercentage =
                                       MathRound(result.score * KeywordOnlyPercent, Scale)])
             IN  [heap |-> spread.heap,
                  map  |-> MapSet(st.map, result.chunkId,
                                  MapEntry(result.chunkId, spread.ref))]

\* the two forEach loops over the references first..last
RECURSIVE HeapVectorPass(_, _, _)
HeapVectorPass(st, first, last) ==
    IF first > last THEN st
    ELSE HeapVectorPass(HeapAddVectorResult(st, first), first + 1, last)

RECURSIVE HeapKeywordPass(_, _, _)
HeapKeywordPass(st, first, last) ==
    IF first > last THEN st
    ELSE HeapKeywordPass(HeapAddKeywordResult(st, first), first + 1, last)

\* the objects and the map when the loops have ended
HeapAfterFusion(vectorResults, keywordResults) ==
    LET n  == Len(vectorResults)
        st == [heap |-> vectorResults \o keywordResults, map |-> <<>>]
    IN  HeapKeywordPass(HeapVectorPass(st, 1, n), n + 1, n + Len(keywordResults))

\* the caller's lists, read after the call
VectorAfterFusion(vectorResults, keywordResults) ==
    SubSeq(HeapAfterFusion(vectorResults, keywordResults).heap, 1, Len(vectorResults))

KeywordAfterFusion(vectorResults, keywordResults) ==
    SubSeq(HeapAfterFusion(vectorResults, keywordResults).heap,
           Len(vectorResults) + 1, Len(vectorResults) + Len(keywordResults))

\* Array.from(resultMap.values()): the objects the map refers to
MapValues(vectorResults, keywordResults) ==
    LET st == HeapAfterFusion(vectorResults, keywordResults)
    IN  [i \in 1..Len(st.map) |-> st.heap[st.map[i].ref]]
(***************************************************************************)
(* search (vectorStore.ts:86-122), after generateEmbeddings has answered    *)
(***************************************************************************)
\* search: the index scored against the query embedding, sorted and cut to
\* limit; an exception of cosineSimilarity is caught and gives [] (lines 118-121)
search(index, queryEmbedding, limit) ==
    IF \E i \in 1..Len(index) : CosineThrows(queryEmbedding, index[i].embedding)
    THEN <<>>
    ELSE LET scored == [i \in 1..Len(index) |->
                           SearchResult(index[i],
                                        cosineSimilarity(queryEmbedding, index[i].embedding))]
             sorted == SortByScoreDesc(scored)
         IN  SubSeq(sorted, 1, Min(limit, Len(sorted)))

(***************************************************************************)
(* Query text and extractKeywords (languageProcessing.ts:88-128)            *)
(* A string is a sequence of one-character strings.                         *)
(***************************************************************************)
\* "The Q4 tax!" and "pay tax tax"
Queries ==
    {<<"T", "h", "e", " ", "Q", "4", " ", "t", "a", "x", "!">>,
     <<"p", "a", "y", " ", "t", "a", "x", " ", "t", "a", "x">>}

\* generateEmbeddings is deterministic for a text (languageProcessing.ts:32-48)
Embed(text) == IF Head(text) = "T" THEN <<1, 0>> ELSE <<3, 4>>

\* String.prototype.toLowerCase on the letters the queries use
LowerChar(c) == CASE c = "T" -> "t" [] c = "Q" -> "q" [] OTHER -> c

toLowerCase(text) == [i \in 1..Len(text) |-> LowerChar(text[i])]

\* the regular-expression class \w
IsWordChar(c) ==
    c \in {"a", "b", "c", "d", "e", "f", "g", "h", "i", "j", "k", "l", "m",
           "n", "o", "p", "q", "r", "s", "t", "u", "v", "w", "x", "y", "z",
           "A", "B", "C", "D", "E", "F", "G", "H", "I", "J", "K", "L", "M",
           "N", "O", "P", "Q", "R", "S", "T", "U", "V", "W", "X", "Y", "Z",
           "0", "1", "2", "3", "4", "5", "6", "7", "8", "9", "_"}

\* the regular-expression class \s on the characters the queries use
IsSpace(c) == c = " "

\* replace(/[^\w\s]/g, '')
StripPunctuation(text) == SelectSeq(text, LAMBDA c : IsWordChar(c) \/ IsSpace(c))

\* replace(/\s+/g, ' ')
RECURSIVE CollapseWhitespace(_)
CollapseWhitespace(text) ==
    IF text = <<>> THEN <<>>
    ELSE IF IsSpace(Head(text))
         THEN IF Len(text) > 1 /\ IsSpace(text[2])
              THEN CollapseWhitespace(Tail(text))
              ELSE <<" ">> \o CollapseWhitespace(Tail(text))
         ELSE <<Head(text)>> \o CollapseWhitespace(Tail(text))

RECURSIVE TrimStart(_)
TrimStart(text) ==
    IF text # <<>> /\ IsSpace(Head(text)) THEN TrimStart(Tail(text)) ELSE text

RECURSIVE TrimEnd(_)
TrimEnd(text) ==
    IF text # <<>> /\ IsSpace(text[Len(text)])
    THEN TrimEnd(SubSeq(text, 1, Len(text) - 1))
    ELSE text

trim(text) == TrimEnd(TrimStart(text))

\* split(' '): the pieces between single separators, empty pieces included
RECURSIVE SplitFrom(_, _, _)
SplitFrom(text, current, pieces) ==
    IF text = <<>> THEN Append(pieces, current)
    ELSE IF IsSpace(Head(text))
         THEN SplitFrom(Tail(text), <<>>, Append(pieces, current))
         ELSE SplitFrom(Tail(text), Append(current, Head(text)), pieces)

split(text) == SplitFrom(text, <<>>, <<>>)

\* split(/\s+/): a run of whitespace is one separator
splitOnWhitespace(text) == split(CollapseWhitespace(text))

\* the words of the stopword list (languageProcessing.ts:103-110)
stopwords ==
    {<<"a">>, <<"a", "n">>, <<"t", "h", "e">>, <<"a", "n", "d">>,
     <<"o", "r">>, <<"b", "u", "t">>, <<"i", "f">>, <<"t", "h", "e", "n">>,
     <<"e", "l", "s", "e">>, <<"w", "h", "e", "n">>, <<"a", "t">>,
     <<"f", "r", "o", "m">>, <<"b", "y">>, <<"f", "o", "r">>,
     <<"w", "i", "t", "h">>, <<"a", "b", "o", "u", "t">>, <<"t", "o">>,
     <<"i", "n">>, <<"o", "n">>, <<"i", "s">>, <<"a", "r", "e">>,
     <<"w", "a", "s">>, <<"w", "e", "r", "e">>, <<"b", "e">>,
     <<"b", "e", "e", "n">>, <<"b", "e", "i", "n", "g">>,
     <<"h", "a", "v", "e">>, <<"h", "a", "s">>, <<"h", "a", "d">>,
     <<"d", "o">>, <<"d", "o", "e", "s">>, <<"d", "i", "d">>,
     <<"w", "i", "l", "l">>, <<"w", "o", "u", "l", "d">>,
     <<"s", "h", "a", "l", "l">>, <<"s", "h", "o", "u", "l", "d">>,
     <<"c", "a", "n">>, <<"c", "o", "u", "l", "d">>, <<"o", "f">>,
     <<"t", "h", "i", "s">>, <<"t", "h", "a", "t">>,
     <<"t", "h", "e", "s", "e">>, <<"t", "h", "o", "s", "e">>, <<"i">>,
     <<"y", "o", "u">>, <<"h", "e">>, <<"s", "h", "e">>, <<"i", "t">>,
     <<"w", "e">>, <<"t", "h", "e", "y">>, <<"m", "e">>, <<"h", "i", "m">>,
     <<"h", "e", "r">>, <<"u", "s">>, <<"t", "h", "e", "m">>}

\* wordCounts[word] = (wordCounts[word] || 0) + 1, keys in insertion order
\* (no query word is a canonical array index, which Object.entries lists first)
CountWord(wordCounts, word) ==
    IF \E i \in 1..Len(wordCounts) : wordCounts[i].word = word
    THEN LET i == CHOOSE k \in 1..Len(wordCounts) : wordCounts[k].word = word
         IN  [wordCounts EXCEPT ![i].score = @ + 1]
    ELSE Append(wordCounts, [word |-> word, score |-> 1])

RECURSIVE CountWords(_, _)
CountWords(wordCounts, words) ==
    IF words = <<>> THEN wordCounts
    ELSE CountWords(IF Len(Head(words)) > 2 /\ Head(words) \notin stopwords
                    THEN CountWord(wordCounts, Head(words))
                    ELSE wordCounts,
                    Tail(words))

\* slice(0, 10) (languageProcessing.ts:124)
MaxKeywords == 10

extractKeywords(text) ==
    LET cleanText   == trim(CollapseWhitespace(StripPunctuation(toLowerCase(text))))
        words       == split(cleanText)
        sortedWords == SortByScoreDesc(CountWords(<<>>, words))
        top         == SubSeq(sortedWords, 1, Min(MaxKeywords, Len(sortedWords)))
    IN  [i \in 1..Len(top) |-> top[i].word]

\* slip: the fallback keeps the short words too
fallbackKeywords_All(text) == splitOnWhitespace(text)

\* the fallback of the extractKeywords node (langGraph.ts:367-369)
fallbackKeywords(text) == SelectSeq(splitOnWhitespace(text), LAMBDA w : Len(w) > 2)

(***************************************************************************)
(* The search graph (langGraph.ts:300-571)                                  *)
(***************************************************************************)
\* nodes[id].next (langGraph.ts:340, 356, 373, 390, 405, 432, 441)
NodeNext(id) ==
    CASE id = "start"                -> <<"detectLanguage">>
      [] id = "detectLanguage"       -> <<"extractKeywords">>
      [] id = "extractKeywords"      -> <<"executeVectorSearch", "executeKeywordSearch">>
      [] id = "executeVectorSearch"  -> <<"waitForDualSearch">>
      [] id = "executeKeywordSearch" -> <<"waitForDualSearch">>
      [] id = "waitForDualSearch"    -> <<"end">>
      [] OTHER                       -> <<>>

BranchNodes == {"executeVectorSearch", "executeKeywordSearch"}

\* vectorSearch(context.query, 20) (langGraph.ts:381)
VectorSearchLimit == 20

\* the object literal of executeSearchGraph (langGraph.ts:449-458);
\* errorMessage "none" stands for the absent optional property
InitialContext(query) ==
    [query |-> query, originalQuery |-> query, language |-> "",
     isDualSearch |-> FALSE, vectorResults |-> <<>>, keywordResults |-> <<>>,
     combinedResults |-> <<>>, keywords |-> <<>>, errorMessage |-> "none"]

NoContext == InitialContext(<<>>)

NoBranch == [state |-> "unstarted", context |-> NoContext, threw |-> "no"]

\* nodes.start.process (langGraph.ts:335-339)
ProcessStart(ctx) == [ctx EXCEPT !.originalQuery = ctx.query]

\* nodes.detectLanguage.process (langGraph.ts:346-355): the detection call is
\* commented out, the try block only assigns
ProcessDetectLanguage(ctx) == [ctx EXCEPT !.language = "english"]

\* what detectLanguage may answer, and its failure
Detections == {"english", "hindi", "hinglish", "throws"}

\* slip: the catch block leaves the language unset
ProcessDetectLanguageEarlier_NoDefault(ctx, detection) ==
    [ctx EXCEPT !.language = IF detection = "throws" THEN "" ELSE detection]

\* nodes.detectLanguage.process of the earlier definition (langGraph.ts:43-52):
\* the language of the detection, 'english' in the catch block
ProcessDetectLanguageEarlier(ctx, detection) ==
    [ctx EXCEPT !.language = IF detection = "throws" THEN "english" ELSE detection]

\* nodes.extractKeywords.process (langGraph.ts:362-372)
ProcessExtractKeywords(ctx, extractionThrows) ==
    [ctx EXCEPT !.keywords = IF extractionThrows
                             THEN fallbackKeywords(ctx.query)
                             ELSE extractKeywords(ctx.query)]

\* nodes.executeVectorSearch.process (langGraph.ts:379-389)
ProcessVectorSearch(ctx, searchThrows, results) ==
    IF searchThrows
    THEN [ctx EXCEPT !.vectorResults = <<>>, !.errorMessage = "Vector search failed"]
    ELSE [ctx EXCEPT !.vectorResults = results]

\* nodes.executeKeywordSearch.process (langGraph.ts:396-404)
ProcessKeywordSearch(ctx, searchThrows, results) ==
    IF searchThrows
    THEN [ctx EXCEPT !.keywordResults = <<>>]
    ELSE [ctx EXCEPT !.keywordResults = results]

\* nodes.waitForDualSearch.process (langGraph.ts:411-431); an array is truthy
ProcessWaitForDualSearch(ctx) ==
    IF ~ctx.isDualSearch
    THEN [ctx EXCEPT !.isDualSearch = TRUE,
                     !.combinedResults =
                         rankAndCombineResults(ctx.vectorResults, ctx.keywordResults),
                     !.vectorResults =
                         VectorAfterFusion(ctx.vectorResults, ctx.keywordResults),
                     !.keywordResults =
                         KeywordAfterFusion(ctx.vectorResults, ctx.keywordResults)]
    ELSE ctx

\* the branches the main loop starts (langGraph.ts:486-493)
LaunchedBranches(next, visited) == SelectSeq(next, LAMBDA id : id \notin visited)

\* slip: Promise.any in place of Promise.all
PromiseAll_Any(promises, br) ==
    \E i \in 1..Len(promises) : br[promises[i]].state = "settled"

\* await Promise.all(branchPromises) (langGraph.ts:507)
PromiseAll(promises, br) ==
    \A i \in 1..Len(promises) : br[promises[i]].state = "settled"

\* slip: the merge of the earlier executeSearchGraph (langGraph.ts:189-192),
\* where a branch context overwrites both result buffers
MergeBranchContext_Overwrite(ctx, branchContext) ==
    [branchContext EXCEPT
        !.errorMessage = IF branchContext.errorMessage # "none"
                         THEN branchContext.errorMessage ELSE ctx.errorMessage]

\* one round of the merge loop (langGraph.ts:511-516)
MergeBranchContext(ctx, branchContext) ==
    [branchContext EXCEPT
        !.errorMessage   = IF branchContext.errorMessage # "none"
                           THEN branchContext.errorMessage ELSE ctx.errorMessage,
        !.vectorResults  = ctx.vectorResults \o branchContext.vectorResults,
        !.keywordResults = ctx.keywordResults \o branchContext.keywordResults]

\* slip: only the context of the branch that completed first is merged
MergeBranches_FirstSettled(ctx, promises, br) ==
    IF settledOrder = <<>> THEN ctx
    ELSE MergeBranchContext(ctx, br[Head(settledOrder)].context)

RECURSIVE MergeBranches(_, _, _)
MergeBranches(ctx, promises, br) ==
    IF promises = <<>> THEN ctx
    ELSE MergeBranches(MergeBranchContext(ctx, br[Head(promises)].context),
                       Tail(promises), br)

\* slip: the vector list is preferred to the fused list
ResultPriority_VectorFirst(ctx) ==
    IF Len(ctx.vectorResults) > 0 THEN ctx.vectorResults
    ELSE IF Len(ctx.combinedResults) > 0 THEN ctx.combinedResults
    ELSE ctx.keywordResults

\* the return statements of executeSearchGraph (langGraph.ts:527-535)
ResultPriority(ctx) ==
    IF Len(ctx.combinedResults) > 0 THEN ctx.combinedResults
    ELSE IF Len(ctx.vectorResults) > 0 THEN ctx.vectorResults
    ELSE ctx.keywordResults

\* branchPromises, in the order of node.next: the branches that were started
BranchPromises ==
    SelectSeq(NodeNext("extractKeywords"), LAMBDA id : branch[id].state # "unstarted")

\* what keywordSearch may resolve to: the rows of up to two matching chunks
\* (the stub of duckdb.ts:195-200 resolves to the empty list)
KeywordAnswers ==
    {<<>>,
     <<[chunkId |-> "B", documentId |-> DocOf("B"), score |-> 400,
        matchPercentage |-> Undefined]>>,
     <<[chunkId |-> "A", documentId |-> DocOf("A"), score |-> 600,
        matchPercentage |-> Undefined],
       [chunkId |-> "B", documentId |-> DocOf("B"), score |-> 400,
        matchPercentage |-> Undefined]>>}

\* executeSearchGraph(query) is called (langGraph.ts:446-462)
ExecuteSearchGraph(query) ==
    /\ pc \in {"idle", "done"}
    /\ pc' = "start"
    /\ context' = InitialContext(query)
    /\ visitedNodes' = {}
    /\ branch' = [b \in BranchNodes |-> NoBranch]
    /\ settledOrder' = <<>>
    /\ outcome' = [status |-> "pending", value |-> <<>>]
    /\ caught' = {}
    /\ UNCHANGED <<storeVars, fuseVars, shardVars, uiVars>>

\* one round of the main loop on a node with a single successor
\* (langGraph.ts:465-483, 497)
RunStart ==
    /\ pc = "start"
    /\ context' = ProcessStart(context)
    /\ visitedNodes' = visitedNodes \cup {pc}
    /\ pc' = NodeNext(pc)[1]
    /\ UNCHANGED <<caught, branch, settledOrder, outcome, storeVars, fuseVars, shardVars, uiVars>>

RunDetectLanguage ==
    /\ pc = "detectLanguage"
    /\ context' = ProcessDetectLanguage(context)
    /\ visitedNodes' = visitedNodes \cup {pc}
    /\ pc' = NodeNext(pc)[1]
    /\ UNCHANGED <<caught, branch, settledOrder, outcome, storeVars, fuseVars, shardVars, uiVars>>

\* the round on detectLanguage with the earlier definition of the node
RunDetectLanguageEarlier(detection) ==
    /\ pc = "detectLanguage"
    /\ context' = ProcessDetectLanguageEarlier(context, detection)
    /\ caught' = IF detection = "throws" THEN caught \cup {pc} ELSE caught
    /\ visitedNodes' = visitedNodes \cup {pc}
    /\ pc' = NodeNext(pc)[1]
    /\ UNCHANGED <<branch, settledOrder, outcome, storeVars, fuseVars, shardVars, uiVars>>

\* the round on extractKeywords: the node has two successors, both branches
\* are started with a copy of the context and the loop ends (langGraph.ts:484-495)
RunExtractKeywords ==
    /\ pc = "extractKeywords"
    /\ \E extractionThrows \in BOOLEAN :
           /\ context' = ProcessExtractKeywords(context, extractionThrows)
           /\ caught' = IF extractionThrows THEN caught \cup {pc} ELSE caught
    /\ visitedNodes' = visitedNodes \cup {pc}
    /\ LET launched == LaunchedBranches(NodeNext(pc), visitedNodes')
       IN  branch' = [b \in BranchNodes |->
                         IF \E i \in 1..Len(launched) : launched[i] = b
                         THEN [state |-> "running", context |-> context', threw |-> "no"]
                         ELSE NoBranch]
    /\ pc' = "awaitBranches"
    /\ UNCHANGED <<settledOrder, outcome, storeVars, fuseVars, shardVars, uiVars>>

\* executeNodeBranch on a search node (langGraph.ts:539-571): the node is
\* processed and, its successor being waitForDualSearch, the branch returns
SettleBranch(b, ctx, threw) ==
    /\ branch' = [branch EXCEPT ![b] = [state |-> "settled", context |-> ctx,
                                        threw |-> threw]]
    /\ settledOrder' = Append(settledOrder, b)
    /\ UNCHANGED <<caught, pc, context, visitedNodes, outcome, storeVars, fuseVars, shardVars, uiVars>>

\* vectorSearch resolves: with the scored index, or with [] when
\* generateEmbeddings threw inside search (vectorStore.ts:94, 118-121)
VectorSearchResolves ==
    /\ branch["executeVectorSearch"].state = "running"
    /\ \E providerThrows \in BOOLEAN :
           LET ctx == branch["executeVectorSearch"].context
               results == IF providerThrows THEN <<>>
                          ELSE search(vectorIndex, Embed(ctx.query), VectorSearchLimit)
           IN  SettleBranch("executeVectorSearch",
                            ProcessVectorSearch(ctx, FALSE, results),
                            IF providerThrows THEN "embedding" ELSE "no")

\* vectorSearch rejects and the node's catch block runs (langGraph.ts:383-387)
VectorSearchRejects ==
    /\ branch["executeVectorSearch"].state = "running"
    /\ SettleBranch("executeVectorSearch",
                    ProcessVectorSearch(branch["executeVectorSearch"].context, TRUE, <<>>),
                    "search")

\* keywordSearch resolves (langGraph.ts:398)
KeywordSearchResolves ==
    /\ branch["executeKeywordSearch"].state = "running"
    /\ \E answer \in KeywordAnswers :
           SettleBranch("executeKeywordSearch",
                        ProcessKeywordSearch(branch["executeKeywordSearch"].context,
                                             FALSE, answer),
                        "no")

\* keywordSearch rejects and the node's catch block runs (langGraph.ts:399-402)
KeywordSearchRejects ==
    /\ branch["executeKeywordSearch"].state = "running"
    /\ SettleBranch("executeKeywordSearch",
                    ProcessKeywordSearch(branch["executeKeywordSearch"].context, TRUE, <<>>),
                    "search")

\* Promise.all resolves, the branch contexts are merged in the order of
\* branchPromises and the wait node fuses (langGraph.ts:505-524)
Join ==
    /\ pc = "awaitBranches"
    /\ Len(BranchPromises) > 0
    /\ PromiseAll(BranchPromises, branch)
    /\ context' = ProcessWaitForDualSearch(MergeBranches(context, BranchPromises, branch))
    /\ pc' = "return"
    /\ UNCHANGED <<caught, visitedNodes, branch, settledOrder, outcome, storeVars, fuseVars, shardVars, uiVars>>

\* the promise of executeSearchGraph resolves (langGraph.ts:526-535)
Return ==
    /\ pc = "return"
    /\ outcome' = [status |-> "resolved", value |-> ResultPriority(context)]
    /\ pc' = "done"
    /\ UNCHANGED <<caught, context, visitedNodes, branch, settledOrder, storeVars, fuseVars, shardVars, uiVars>>

(***************************************************************************)
(* Unexpected exceptions: thrown outside the try block of a node            *)
(***************************************************************************)
\* node.process throws in the main loop: the catch block records the error
\* and leaves the loop; no branch was started (langGraph.ts:498-502, 506)
MainNodeThrows ==
    /\ pc \in {"start", "detectLanguage", "extractKeywords"}
    /\ context' = [context EXCEPT !.errorMessage = "Error in node"]
    /\ pc' = "return"
    /\ UNCHANGED <<caught, visitedNodes, branch, settledOrder, outcome, storeVars, fuseVars, shardVars, uiVars>>

\* node.process throws inside executeNodeBranch: the branch returns the
\* context it was given (langGraph.ts:564-570)
BranchNodeThrows(b) ==
    /\ branch[b].state = "running"
    /\ SettleBranch(b, branch[b].context, "escaped")

\* the merge loop or the wait node throws: nothing catches it and the
\* promise of executeSearchGraph rejects (langGraph.ts:505-524)
JoinThrows ==
    /\ pc = "awaitBranches"
    /\ Len(BranchPromises) > 0
    /\ PromiseAll(BranchPromises, branch)
    /\ outcome' = [status |-> "rejected", value |-> <<>>]
    /\ pc' = "done"
    /\ UNCHANGED <<caught, context, visitedNodes, branch, settledOrder, storeVars, fuseVars, shardVars, uiVars>>

(***************************************************************************)
(* The vector index (vectorStore.ts:53-84)                                  *)
(***************************************************************************)
MaxIndex == 2

MaxChunks == 2

\* the embeddings chunks arrive with: one of the provider's length, one not
PreEmbeddings == {<<3, 4>>, <<1>>}

\* generateEmbeddings(chunk.text): the text of a chunk is fixed, and the
\* provider is deterministic for a text (languageProcessing.ts:32-48)
EmbedChunk(chunkId) == IF chunkId = "A" THEN <<1, 0>> ELSE <<-1, 0>>

\* a DocumentChunk: its id and its optional embedding; processFile hands on
\* chunks without one when generation failed (processChunksWithEmbeddings)
Chunks ==
    {[id |-> c, embedding |-> e] : c \in ChunkIds, e \in PreEmbeddings \cup {NoEmbedding}}

\* the chunk lists a caller may pass to addToVectorStore
ChunkLists == UNION {[1..n -> Chunks] : n \in 1..MaxChunks}

\* the chunk ids of uploaded documents: "C" is a second chunk of doc1
UploadChunkIds == ChunkIds \cup {"C"}

\* the chunk lists the upload passes to addToVectorStore: the chunks of one
\* document, each with its own id, with an embedding of the provider's
\* length or with none (UploadModal.tsx:95-99)
DocumentChunkLists ==
    LET uploadChunks == {[id |-> c, embedding |-> e] :
                            c \in UploadChunkIds, e \in {<<3, 4>>, NoEmbedding}}
        lists == UNION {[1..n -> uploadChunks] : n \in 1..MaxChunks}
    IN  {chunks \in lists :
            \A i, j \in 1..Len(chunks) :
                /\ DocOf(chunks[i].id) = DocOf(chunks[j].id)
                /\ i # j => chunks[i].id # chunks[j].id}

\* what getAllDocuments can resolve with: the chunk ids of the stored documents
StoredChunkLists == {<<>>, <<"A">>, <<"B">>, <<"A", "B">>, <<"B", "A">>}

\* limit: number = 10 (vectorStore.ts:88)
DefaultLimit == 10

\* the limits a caller may pass to search
SearchLimits == {1, 2, DefaultLimit}

\* caught: whether the latest initVectorStore call ended in its catch block
NotLoading == [pc |-> "idle", chunks |-> <<>>, caught |-> FALSE]

NotSearching == [query |-> <<>>, limit |-> 0]

NoSearch == [status |-> "none", queryEmbedding |-> NoEmbedding, limit |-> 0,
             results |-> <<>>]

\* every content the index can have with at most MaxIndex entries
IndexEntries ==
    {[chunkId |-> c, documentId |-> DocOf(c), embedding |-> e] :
         c \in ChunkIds, e \in Embeddings}

Indexes == UNION {[1..n -> IndexEntries] : n \in 0..MaxIndex}

\* slip: the filter keeps the document instead of dropping it
WithoutDocument_Inverted(index, documentId) ==
    SelectSeq(index, LAMBDA item : item.documentId = documentId)

\* vectorIndex.filter(item => item.documentId !== documentId) (vectorStore.ts:81)
WithoutDocument(index, documentId) ==
    SelectSeq(index, LAMBDA item : item.documentId # documentId)

\* slip: the test of chunk.embedding is left out
NeedsEmbedding_Never(chunk) == FALSE

\* !chunk.embedding (vectorStore.ts:59)
NeedsEmbedding(chunk) == chunk.embedding = NoEmbedding

\* no addToVectorStore call was made yet
NoAddCall == [chunks |-> [d \in DocumentIds |-> 0], before |-> {}]

\* the entry addToVectorStore pushes for a chunk (vectorStore.ts:68-75)
IndexEntry(chunk) ==
    [chunkId |-> chunk.id, documentId |-> DocOf(chunk.id), embedding |-> chunk.embedding]

\* addToVectorStore(chunks, ...) is called; its loop runs to its first await,
\* generateEmbeddings or saveEmbedding (vectorStore.ts:53-65)
AddToVectorStore(chunks) ==
    /\ adding = <<>>
    /\ Len(vectorIndex) + Len(chunks) <= MaxIndex
    /\ adding' = chunks
    /\ addCall' = [chunks |-> [d \in DocumentIds |->
                                   Len(SelectSeq(chunks, LAMBDA chunk : DocOf(chunk.id) = d))],
                    before |-> {d \in DocumentIds :
                                   \E i \in 1..Len(vectorIndex) : vectorIndex[i].documentId = d}]
    /\ addResult' = "pending"
    /\ UNCHANGED <<vectorIndex, removed, lastRemoved, embeddingStore, loading,
                   searching, searchOut, graphVars, fuseVars, shardVars, uiVars>>

\* generateEmbeddings resolves for a chunk that came without an embedding; the
\* loop goes on to await saveEmbedding (vectorStore.ts:59-65)
GenerateEmbeddingsResolves ==
    /\ adding # <<>>
    /\ NeedsEmbedding(Head(adding))
    /\ adding' = <<[Head(adding) EXCEPT !.embedding = EmbedChunk(Head(adding).id)]>>
                  \o Tail(adding)
    /\ UNCHANGED <<addCall, vectorIndex, addResult, removed, lastRemoved, embeddingStore,
                   loading, searching, searchOut, graphVars, fuseVars, shardVars, uiVars>>

\* saveEmbedding resolves: the embedding is stored and the entry is pushed; the
\* loop runs to the next await or to its end (vectorStore.ts:65-76)
IndexNextChunk ==
    /\ adding # <<>>
    /\ ~NeedsEmbedding(Head(adding))
    /\ Len(vectorIndex) < MaxIndex
    /\ embeddingStore' =
           [embeddingStore EXCEPT ![Head(adding).id] = Head(adding).embedding]
    /\ vectorIndex' = Append(vectorIndex, IndexEntry(Head(adding)))
    /\ adding' = Tail(adding)
    /\ addResult' = IF Tail(adding) = <<>> THEN "resolved" ELSE "pending"
    /\ removed' = removed \ {DocOf(Head(adding).id)}
    /\ UNCHANGED <<addCall, lastRemoved, loading, searching, searchOut, graphVars, fuseVars, shardVars, uiVars>>

\* generateEmbeddings or saveEmbedding rejects: the call ends, the chunk at
\* hand and the chunks not yet reached are not indexed (vectorStore.ts:61, 65)
AddToVectorStoreFails ==
    /\ adding # <<>>
    /\ adding' = <<>>
    /\ addResult' = "rejected"
    /\ UNCHANGED <<addCall, vectorIndex, removed, lastRemoved, embeddingStore, loading,
                   searching, searchOut, graphVars, fuseVars, shardVars, uiVars>>

\* removeFromVectorStore(documentId) (vectorStore.ts:79-84)
RemoveFromVectorStore(documentId) ==
    /\ vectorIndex' = WithoutDocument(vectorIndex, documentId)
    /\ removed' = removed \cup {documentId}
    /\ lastRemoved' = Len(vectorIndex) - Len(vectorIndex')
    /\ UNCHANGED <<adding, addCall, addResult, embeddingStore, loading, searching, searchOut,
                   graphVars, fuseVars, shardVars, uiVars>>

\* initVectorStore() is called: the index is cleared and getAllDocuments is
\* awaited (vectorStore.ts:15-24)
InitVectorStore ==
    /\ loading.pc = "idle"
    /\ vectorIndex' = <<>>
    /\ loading' = [pc |-> "documents", chunks |-> <<>>, caught |-> FALSE]
    /\ UNCHANGED <<adding, addCall, addResult, removed, lastRemoved, embeddingStore, searching,
                   searchOut, graphVars, fuseVars, shardVars, uiVars>>

\* getAllDocuments resolves; the loops reach the first getEmbedding, or end
\* when no document has a chunk (vectorStore.ts:24-33)
GetAllDocumentsResolves(chunkIds) ==
    /\ loading.pc = "documents"
    /\ loading' = IF chunkIds = <<>> THEN NotLoading
                  ELSE [loading EXCEPT !.pc = "chunks", !.chunks = chunkIds]
    /\ UNCHANGED <<vectorIndex, adding, addCall, addResult, removed, lastRemoved,
                   embeddingStore, searching, searchOut, graphVars, fuseVars, shardVars, uiVars>>

\* getEmbedding resolves for the chunk at hand: the chunk is pushed when an
\* embedding is stored for it, and skipped when none is (vectorStore.ts:31-44)
GetEmbeddingResolves ==
    /\ loading.pc = "chunks"
    /\ LET chunkId == Head(loading.chunks)
           embedding == embeddingStore[chunkId]
       IN  /\ embedding # NoEmbedding => Len(vectorIndex) < MaxIndex
           /\ vectorIndex' =
                  IF embedding # NoEmbedding
                  THEN Append(vectorIndex,
                              IndexEntry([id |-> chunkId, embedding |-> embedding]))
                  ELSE vectorIndex
           /\ removed' = IF embedding # NoEmbedding THEN removed \ {DocOf(chunkId)}
                         ELSE removed
    /\ loading' = IF Tail(loading.chunks) = <<>> THEN NotLoading
                  ELSE [loading EXCEPT !.chunks = Tail(loading.chunks)]
    /\ UNCHANGED <<adding, addCall, addResult, lastRemoved, embeddingStore, searching,
                   searchOut, graphVars, fuseVars, shardVars, uiVars>>

\* getAllDocuments or getEmbedding rejects: the catch block ends the call and
\* keeps what was pushed so far (vectorStore.ts:48-50)
InitVectorStoreCatches ==
    /\ loading.pc # "idle"
    /\ loading' = [NotLoading EXCEPT !.caught = TRUE]
    /\ UNCHANGED <<vectorIndex, adding, addCall, addResult, removed, lastRemoved,
                   embeddingStore, searching, searchOut, graphVars, fuseVars, shardVars, uiVars>>

\* search(query, limit) is called and awaits generateEmbeddings
\* (vectorStore.ts:86-94)
SearchCalled(query, limit) ==
    /\ searching = NotSearching
    /\ searching' = [query |-> query, limit |-> limit]
    /\ UNCHANGED <<vectorIndex, adding, addCall, addResult, removed, lastRemoved,
                   embeddingStore, loading, searchOut, graphVars, fuseVars, shardVars, uiVars>>

\* generateEmbeddings resolves: the index is scored, sorted and cut in one
\* synchronous run (vectorStore.ts:94-117)
SearchResolves ==
    /\ searching # NotSearching
    /\ searchOut' = [status |-> "returned", queryEmbedding |-> Embed(searching.query),
                     limit |-> searching.limit,
                     results |-> search(vectorIndex, Embed(searching.query),
                                        searching.limit)]
    /\ searching' = NotSearching
    /\ UNCHANGED <<vectorIndex, adding, addCall, addResult, removed, lastRemoved,
                   embeddingStore, loading, graphVars, fuseVars, shardVars, uiVars>>

\* generateEmbeddings rejects: the catch block returns [] (vectorStore.ts:118-121)
SearchCatches ==
    /\ searching # NotSearching
    /\ searchOut' = [status |-> "caught", queryEmbedding |-> NoEmbedding,
                     limit |-> searching.limit, results |-> <<>>]
    /\ searching' = NotSearching
    /\ UNCHANGED <<vectorIndex, adding, addCall, addResult, removed, lastRemoved,
                   embeddingStore, loading, graphVars, fuseVars, shardVars, uiVars>>
(***************************************************************************)
(* ShardedStorageManager: simpleHash and checkBloomFilter                   *)
(* (langGraph.ts:755-765)                                                   *)
(*                                                                         *)
(* simpleHash works on JavaScript numbers: hash << 5 is a signed 32-bit     *)
(* value, but (hash << 5) - hash + code is an exact double that can leave   *)
(* the 32-bit range.  The model keeps such a number as a pair <<hi, lo>>    *)
(* standing for hi * 65536 + lo with 0 <= lo < 65536.                       *)
(***************************************************************************)
Limb == 65536

Norm(hi, lo) == <<hi + (lo \div Limb), lo % Limb>>

\* ToInt32: the value modulo 2^32, read as a signed 32-bit integer
ToInt32(v) ==
    LET h == v[1] % Limb
    IN  <<IF h >= Limb \div 2 THEN h - Limb ELSE h, v[2]>>

\* hash << 5
ShiftLeft5(v) == ToInt32(Norm(v[1] * 32, v[2] * 32))

Minus(a, b) == Norm(a[1] - b[1], a[2] - b[2])

Plus(a, n) == Norm(a[1], a[2] + n)

IsNegative(v) == v[1] < 0

Abs(v) == IF IsNegative(v) THEN Norm(-v[1], -v[2]) ELSE v

\* the JavaScript remainder v % n for n > 0: it has the sign of v (-0 is 0 as
\* a string index)
Remainder(v, n) ==
    LET a == Abs(v)
        r == ((a[1] % n) * (Limb % n) + a[2]) % n
    IN  IF IsNegative(v) THEN -r ELSE r

\* the mathematical residue of v modulo n, in 0..n-1
Residue(v, n) == (Remainder(v, n) + n) % n

Letters ==
    <<"a", "b", "c", "d", "e", "f", "g", "h", "i", "j", "k", "l", "m",
      "n", "o", "p", "q", "r", "s", "t", "u", "v", "w", "x", "y", "z">>

\* char.charCodeAt(0) for the characters of the lower-cased queries and terms
charCodeAt(c) ==
    CASE c = " " -> 32
      [] c = "!" -> 33
      [] c = "4" -> 52
      [] OTHER -> 96 + CHOOSE i \in 1..26 : Letters[i] = c

\* the reduce of simpleHash from an accumulator (langGraph.ts:762-764)
RECURSIVE HashFrom(_, _)
HashFrom(hash, str) ==
    IF str = <<>> THEN hash
    ELSE HashFrom(Plus(Minus(ShiftLeft5(hash), hash), charCodeAt(Head(str))),
                  Tail(str))

simpleHash(str) == HashFrom(<<0, 0>>, str)

\* String.prototype.charAt: "" outside the string
charAt(str, index) ==
    IF index >= 0 /\ index < Len(str) THEN str[index + 1] ELSE ""

\* checkBloomFilter (langGraph.ts:755-759); hash % 0 is NaN and charAt(NaN)
\* reads position 0, which the empty filter does not have
checkBloomFilter(filter, term) ==
    IF filter = <<>> THEN FALSE
    ELSE charAt(filter, Remainder(simpleHash(term), Len(filter))) = "1"

\* a filter of the given length holding just this term: the position
\* simpleHash(term) mod length is '1', every other position '0'
FilterWith(term, length) ==
    [i \in 1..length |->
        IF i - 1 = Residue(simpleHash(term), length) THEN "1" ELSE "0"]

\* harness of checkBloomFilter: a term is put into a filter, then looked up
MaxTerm == 6

MaxFilter == 4

TermLetters == {"a", "z"}

Terms == UNION {[1..n -> TermLetters] : n \in 0..MaxTerm}

BloomInsert(term, length) ==
    /\ bloomPc = "ready"
    /\ bloomTerm' = term
    /\ bloomFilter' = FilterWith(term, length)
    /\ bloomPc' = "inserted"
    /\ UNCHANGED <<bloomAnswer, managerVars, cacheVars, storeVars, graphVars, fuseVars, uiVars>>

BloomCheck ==
    /\ bloomPc = "inserted"
    /\ bloomAnswer' = checkBloomFilter(bloomFilter, bloomTerm)
    /\ bloomPc' = "checked"
    /\ UNCHANGED <<bloomTerm, bloomFilter, managerVars, cacheVars, storeVars,
                   graphVars, fuseVars, uiVars>>

(***************************************************************************)
(* ShardedStorageManager: manifest, initialize and getRelevantShards        *)
(* (langGraph.ts:637-677, 767-792)                                          *)
(***************************************************************************)
\* the null of the field manifest and of getMetadata
NullManifest == [version |-> "null", shards |-> <<>>]

\* { version: '1.0', shards: [] } (langGraph.ts:646-649)
EmptyManifest == [version |-> "1.0", shards |-> <<>>]

MaxShards == 4

ShardIds == <<"s1", "s2", "s3", "s4", "s5">>

\* the length of the bloom filters in the stored manifests
FilterLength == 5

\* shard.bloomFilter: no term, or the term "tax"
NoTermFilter == [i \in 1..FilterLength |-> "0"]

TaxFilter == FilterWith(<<"t", "a", "x">>, FilterLength)

BloomFilters == {NoTermFilter, TaxFilter}

\* shard.centroids[0]
Centroids == {<<1, 0>>, <<3, 4>>, <<0, 0>>}

\* the filter and centroid a stored shard may have
ShardKinds ==
    {[bloomFilter |-> NoTermFilter, centroid |-> <<1, 0>>],
     [bloomFilter |-> TaxFilter, centroid |-> <<1, 0>>],
     [bloomFilter |-> TaxFilter, centroid |-> <<3, 4>>],
     [bloomFilter |-> NoTermFilter, centroid |-> <<0, 0>>]}

\* the manifests a session may find stored: n shards with distinct ids
Manifests ==
    UNION {{[version |-> "1.0",
             shards |-> [i \in 1..n |->
                            [id |-> ShardIds[i], bloomFilter |-> kinds[i].bloomFilter,
                             centroids |-> <<kinds[i].centroid>>]]] :
                kinds \in [1..n -> ShardKinds]} :
           n \in 0..MaxShards}

\* the number that is not a number, outside the range of every similarity
NaN == 9 * Scale

\* ShardedStorageManager.cosineSimilarity (langGraph.ts:780-792): the loop
\* runs over a; an index b does not have reads undefined and makes the sums
\* NaN; there is no test for a zero norm, and 0 / 0 is NaN
ShardCosineSimilarity(a, b) ==
    IF Len(b) < Len(a) THEN NaN
    ELSE LET bPrefix == SubSeq(b, 1, Len(a))
             dotProduct == DotProduct(a, bPrefix)
             normA == DotProduct(a, a)
             normB == DotProduct(bPrefix, bPrefix)
         IN  IF Sqrt(normA) * Sqrt(normB) = 0 THEN NaN
             ELSE (dotProduct * Scale) \div (Sqrt(normA) * Sqrt(normB))

\* the comparator (a, b) => b.distance - a.distance; Array.prototype.sort
\* takes a NaN result as +0
CompareDistance(a, b) ==
    IF a.distance = NaN \/ b.distance = NaN THEN 0 ELSE b.distance - a.distance

\* sort as a stable insertion sort: item goes behind the last entry that does
\* not have to follow it
RECURSIVE InsertByDistance(_, _)
InsertByDistance(sorted, item) ==
    IF sorted = <<>> THEN <<item>>
    ELSE IF CompareDistance(sorted[Len(sorted)], item) <= 0
         THEN Append(sorted, item)
         ELSE Append(InsertByDistance(SubSeq(sorted, 1, Len(sorted) - 1), item),
                     sorted[Len(sorted)])

RECURSIVE SortByDistance(_)
SortByDistance(items) ==
    IF items = <<>> THEN <<>>
    ELSE InsertByDistance(SortByDistance(SubSeq(items, 1, Len(items) - 1)),
                          items[Len(items)])

\* findNearestCentroids(embedding, 3) (langGraph.ts:673)
NearestShards == 3

\* findNearestCentroids (langGraph.ts:767-778)
findNearestCentroids(shards, embedding, k) ==
    LET scored == [i \in 1..Len(shards) |->
                      [id |-> shards[i].id,
                       distance |-> ShardCosineSimilarity(embedding,
                                                          shards[i].centroids[1])]]
        sorted == SortByDistance(scored)
    IN  [i \in 1..Min(k, Len(sorted)) |-> sorted[i].id]

\* relevantShards.add(id) on a Set kept in insertion order
RECURSIVE SetAddAll(_, _)
SetAddAll(set, ids) ==
    IF ids = <<>> THEN set
    ELSE SetAddAll(IF \E i \in 1..Len(set) : set[i] = Head(ids) THEN set
                   ELSE Append(set, Head(ids)),
                   Tail(ids))

\* the shards a term of the query tests positive for (langGraph.ts:663-668)
BloomMatches(shards, query) ==
    LET terms == splitOnWhitespace(toLowerCase(query))
        hit(shard) == \E i \in 1..Len(terms) : checkBloomFilter(shard.bloomFilter, terms[i])
        hits == SelectSeq(shards, hit)
    IN  [i \in 1..Len(hits) |-> hits[i].id]

\* getRelevantShards on an initialized manager (langGraph.ts:660-676);
\* embedding is NoEmbedding when the caller passes none
getRelevantShards(shards, query, embedding) ==
    LET lexical == SetAddAll(<<>>, BloomMatches(shards, query))
    IN  IF embedding = NoEmbedding THEN lexical
        ELSE SetAddAll(lexical, findNearestCentroids(shards, embedding, NearestShards))

\* slip: a missing manifest is kept as it is
ManifestOrEmpty_Keep(stored) == stored

\* if (!this.manifest) this.manifest = { version: '1.0', shards: [] }
\* (langGraph.ts:645-650)
ManifestOrEmpty(stored) == IF stored = NullManifest THEN EmptyManifest ELSE stored

\* missing: whether getMetadata found no manifest in this call
NotInitializing == [pc |-> "idle", missing |-> FALSE]

NoRelevant == [status |-> "none", value |-> <<>>, query |-> <<>>,
               embedding |-> NoEmbedding]

\* initialize() is called and awaits getMetadata (langGraph.ts:642-644)
Initialize ==
    /\ ~hung
    /\ initializing.pc = "idle"
    /\ initializing' = [initializing EXCEPT !.pc = "getMetadata"]
    /\ UNCHANGED <<manifest, db, metadataStore, relevant, bloomVars, cacheVars,
                   storeVars, graphVars, fuseVars, uiVars>>

\* getMetadata resolves: the stored manifest is taken, or the empty one is
\* set and saveMetadata is awaited (langGraph.ts:644-651)
GetMetadataResolves ==
    /\ ~hung
    /\ initializing.pc = "getMetadata"
    /\ manifest' = ManifestOrEmpty(metadataStore)
    /\ initializing' =
           IF metadataStore = NullManifest
           THEN [pc |-> "saveMetadata", missing |-> TRUE]
           ELSE [pc |-> "initializeDatabase", missing |-> FALSE]
    /\ UNCHANGED <<db, metadataStore, relevant, bloomVars, cacheVars, storeVars,
                   graphVars, fuseVars, uiVars>>

\* saveMetadata resolves: the manifest is stored; initializeDatabase is
\* awaited (langGraph.ts:650-654)
SaveMetadataResolves ==
    /\ ~hung
    /\ initializing.pc = "saveMetadata"
    /\ metadataStore' = manifest
    /\ initializing' = [initializing EXCEPT !.pc = "initializeDatabase"]
    /\ UNCHANGED <<manifest, db, relevant, bloomVars, cacheVars, storeVars,
                   graphVars, fuseVars, uiVars>>

\* initializeDatabase resolves: db is set and initialize returns
\* (langGraph.ts:654-655)
InitializeDatabaseResolves ==
    /\ ~hung
    /\ initializing.pc = "initializeDatabase"
    /\ db' = "open"
    /\ initializing' = [initializing EXCEPT !.pc = "resolved"]
    /\ UNCHANGED <<manifest, metadataStore, relevant, bloomVars, cacheVars,
                   storeVars, graphVars, fuseVars, uiVars>>

\* getRelevantShards(query, embeddings) runs without an await: it throws
\* while manifest is null (langGraph.ts:657-677)
GetRelevantShards(query, embedding) ==
    /\ relevant' =
           IF manifest = NullManifest
           THEN [status |-> "rejected", value |-> <<>>, query |-> query,
                 embedding |-> embedding]
           ELSE [status |-> "resolved",
                 value |-> getRelevantShards(manifest.shards, query, embedding),
                 query |-> query, embedding |-> embedding]
    /\ UNCHANGED <<manifest, db, metadataStore, initializing, bloomVars, cacheVars,
                   storeVars, graphVars, fuseVars, uiVars>>

(***************************************************************************)
(* ShardedStorageManager: loadShard and updateCache (langGraph.ts:679-753)  *)
(* Byte sizes are counted in MiB.                                           *)
(***************************************************************************)
\* const MAX_CACHE_SIZE = 200 * 1024 * 1024 (langGraph.ts:635)
MAX_CACHE_SIZE == 200

\* the object stores initializeDatabase creates (storage.ts:8-11, 28-55);
\* 'shard_cache' is not among them
ObjectStoreNames == {"documents", "chunks", "embeddings", "metadata"}

\* the shards the remote source serves and the size of each payload; the
\* last one is larger than the whole cache budget
RemoteShards == {"s1", "s2", "s3"}

ByteLength(shardId) ==
    CASE shardId = "s1" -> 100
      [] shardId = "s2" -> 150
      [] OTHER -> 250

\* an ArrayBuffer: its length, and whether it holds the shard or the body of
\* an error response
ShardBuffer(shardId) == [shardId |-> shardId, byteLength |-> ByteLength(shardId),
                         body |-> "shard"]

\* the body the server sends with a non-success status
ErrorBuffer(shardId) == [shardId |-> shardId, byteLength |-> 1, body |-> "error"]

NoBuffer == [shardId |-> "", byteLength |-> 0, body |-> "none"]

\* the callers of loadShard whose calls may overlap
Callers == {"c1", "c2"}

MaxClock == 1

\* fetch: how the request ended; reinserted: updateCache found the shard
\* cached.  A call that has ended keeps only its pc, "returned" or "failed"
NoLoad == [pc |-> "idle", shardId |-> "", pending |-> "none", fetch |-> "none",
           buffer |-> NoBuffer, reinserted |-> FALSE]

CacheHas(entries, shardId) == \E i \in 1..Len(entries) : entries[i].shardId = shardId

CacheGet(entries, shardId) ==
    entries[CHOOSE i \in 1..Len(entries) : entries[i].shardId = shardId]

\* Map.prototype.set: a key already present keeps its place
CacheSet(entries, entry) ==
    IF CacheHas(entries, entry.shardId)
    THEN [i \in 1..Len(entries) |->
             IF entries[i].shardId = entry.shardId THEN entry ELSE entries[i]]
    ELSE Append(entries, entry)

\* getCacheSize (langGraph.ts:722-725)
RECURSIVE getCacheSize(_)
getCacheSize(entries) ==
    IF entries = <<>> THEN 0
    ELSE Head(entries).data.byteLength + getCacheSize(Tail(entries))

\* the entry a stable sort by ascending lastAccessed puts first
\* (langGraph.ts:704-705)
Oldest(entries) ==
    CHOOSE i \in 1..Len(entries) :
        /\ \A j \in 1..Len(entries) : entries[i].lastAccessed <= entries[j].lastAccessed
        /\ \A j \in 1..(i - 1) : entries[j].lastAccessed > entries[i].lastAccessed

Without(entries, i) == SubSeq(entries, 1, i - 1) \o SubSeq(entries, i + 1, Len(entries))

\* slip: the loop condition never holds
OverBudget_Never(entries, data) == FALSE

\* getCacheSize() + data.byteLength > MAX_CACHE_SIZE (langGraph.ts:703)
OverBudget(entries, data) == getCacheSize(entries) + data.byteLength > MAX_CACHE_SIZE

\* the while loop of updateCache (langGraph.ts:703-709), run to its exit
RECURSIVE Evict(_, _)
Evict(entries, data) ==
    IF OverBudget(entries, data) /\ entries # <<>>
    THEN Evict(Without(entries, Oldest(entries)), data)
    ELSE entries

\* the loop does not end: the cache is empty and the data still does not fit
\* (oldest is undefined, nothing is deleted, the condition holds again)
SpinsForever(entries, data) == OverBudget(Evict(entries, data), data)

\* the values of the field db: null, "open" for the database initialize
\* opened, and "seeded" for a database that was given a 'shard_cache' store
\* by other means than initializeDatabase
HasShardCache(database) ==
    \/ database = "seeded"
    \/ database = "open" /\ "shard_cache" \in ObjectStoreNames

\* loadFromIndexedDB / saveToIndexedDB up to the request: null or nothing
\* without a db; the transaction on a store the database does not have
\* throws in the promise executor, which rejects the promise
\* (langGraph.ts:727-753)
IndexedDBAnswer(database, records, shardId) ==
    IF database = "null" THEN "null"
    ELSE IF ~HasShardCache(database) THEN "rejects"
    ELSE IF \E r \in records : r.shardId = shardId THEN "hit"
    ELSE "null"

Terminal == {"idle", "returned", "failed"}

Ended(how) == [NoLoad EXCEPT !.pc = how]

\* loadShard(shardId) is called: a cached shard is returned and its
\* lastAccessed refreshed; otherwise loadFromIndexedDB is awaited
\* (langGraph.ts:679-688)
LoadShard(call, shardId) ==
    /\ ~hung
    /\ loads[call].pc \in Terminal
    /\ IF CacheHas(cache, shardId)
       THEN /\ cache' = CacheSet(cache, [CacheGet(cache, shardId)
                                             EXCEPT !.lastAccessed = clock])
            /\ loads' = [loads EXCEPT ![call] = Ended("returned")]
       ELSE /\ cache' = cache
            /\ loads' = [loads EXCEPT ![call] =
                             [NoLoad EXCEPT !.pc = "indexedDB", !.shardId = shardId,
                                            !.pending = IndexedDBAnswer(db, shardStore,
                                                                        shardId)]]
    /\ UNCHANGED <<shardStore, clock, hung, bloomVars, managerVars, storeVars,
                   graphVars, fuseVars, uiVars>>

\* the promise of loadFromIndexedDB settles: a rejection ends loadShard,
\* stored data is returned, and on null fetch is awaited (langGraph.ts:687-691)
IndexedDBSettles(call) ==
    /\ ~hung
    /\ loads[call].pc = "indexedDB"
    /\ loads' = [loads EXCEPT ![call] =
                     CASE loads[call].pending = "rejects" -> Ended("failed")
                       [] loads[call].pending = "hit" -> Ended("returned")
                       [] OTHER -> [@ EXCEPT !.pc = "fetch", !.pending = "none"]]
    /\ UNCHANGED <<cache, shardStore, clock, hung, bloomVars, managerVars, storeVars,
                   graphVars, fuseVars, uiVars>>

\* fetch resolves with a response, of success status or not; the code does
\* not look at the status and awaits response.arrayBuffer()
\* (langGraph.ts:691-692)
FetchResolves(call, ok) ==
    /\ ~hung
    /\ loads[call].pc = "fetch"
    /\ loads' = [loads EXCEPT ![call] =
                     [@ EXCEPT !.pc = "body", !.fetch = IF ok THEN "ok" ELSE "notOk"]]
    /\ UNCHANGED <<cache, shardStore, clock, hung, bloomVars, managerVars, storeVars,
                   graphVars, fuseVars, uiVars>>

\* fetch rejects, or the body cannot be read: loadShard rejects
\* (langGraph.ts:691-692)
FetchRejects(call) ==
    /\ ~hung
    /\ loads[call].pc \in {"fetch", "body"}
    /\ loads' = [loads EXCEPT ![call] = Ended("failed")]
    /\ UNCHANGED <<cache, shardStore, clock, hung, bloomVars, managerVars, storeVars,
                   graphVars, fuseVars, uiVars>>

\* response.arrayBuffer() resolves and updateCache runs up to its await: the
\* eviction loop, cache.set and the call of saveToIndexedDB
\* (langGraph.ts:692-719)
ArrayBufferResolves(call) ==
    /\ ~hung
    /\ loads[call].pc = "body"
    /\ LET shardId == loads[call].shardId
           buffer == IF loads[call].fetch = "ok" THEN ShardBuffer(shardId)
                     ELSE ErrorBuffer(shardId)
       IN  IF SpinsForever(cache, buffer)
           THEN /\ cache' = Evict(cache, buffer)
                /\ hung' = TRUE
                /\ loads' = [loads EXCEPT ![call] =
                                 [@ EXCEPT !.pc = "updateCache", !.buffer = buffer]]
           ELSE /\ cache' = CacheSet(Evict(cache, buffer),
                                     [shardId |-> shardId, data |-> buffer,
                                      lastAccessed |-> clock])
                /\ hung' = FALSE
                /\ loads' = [loads EXCEPT ![call] =
                                 [@ EXCEPT !.pc = "save", !.buffer = buffer,
                                           !.reinserted = CacheHas(cache, shardId),
                                           !.pending =
                                               IF db = "null" THEN "nothing"
                                               ELSE IF ~HasShardCache(db)
                                                    THEN "rejects"
                                                    ELSE "put"]]
    /\ UNCHANGED <<shardStore, clock, bloomVars, managerVars, storeVars, graphVars,
                   fuseVars, uiVars>>

\* the promise of saveToIndexedDB settles: updateCache and loadShard return,
\* or reject with the error of the transaction (langGraph.ts:719, 695-698)
SaveSettles(call) ==
    /\ ~hung
    /\ loads[call].pc = "save"
    /\ shardStore' = IF loads[call].pending = "put"
                     THEN {r \in shardStore : r.shardId # loads[call].shardId}
                              \cup {loads[call].buffer}
                     ELSE shardStore
    /\ loads' = [loads EXCEPT ![call] =
                     Ended(IF loads[call].pending = "rejects" THEN "failed"
                           ELSE "returned")]
    /\ UNCHANGED <<cache, clock, hung, bloomVars, managerVars, storeVars, graphVars,
                   fuseVars, uiVars>>

\* time passes: Date.now() grows
Tick ==
    /\ ~hung
    /\ clock < MaxClock
    /\ clock' = clock + 1
    /\ UNCHANGED <<cache, shardStore, loads, hung, bloomVars, managerVars, storeVars,
                   graphVars, fuseVars, uiVars>>
(***************************************************************************)
(* keywordSearch (duckdb.ts:183-259)                                        *)
(***************************************************************************)
\* the texts a row of document_chunks may hold: "The Q4 tax!", "pay tax",
\* "tax", "pay" and "Q4"
ChunkTexts ==
    {<<"T", "h", "e", " ", "Q", "4", " ", "t", "a", "x", "!">>,
     <<"p", "a", "y", " ", "t", "a", "x">>,
     <<"t", "a", "x">>,
     <<"p", "a", "y">>,
     <<"Q", "4">>}

\* the queries, and "Q4", which has no term of more than 2 characters
KeywordQueries == Queries \cup {<<"Q", "4">>}

\* the row of a chunk; text NoText: the chunk has no row
NoText == <<"-">>

KeywordTables == [ChunkIds -> ChunkTexts \cup {NoText}]

NoKeywordCall == [pc |-> "idle", query |-> <<>>, results |-> <<>>]

\* the body of keywordSearch that runs: the console.log and return []
\* (duckdb.ts:195-200); the scoring code below it is inside a comment
keywordSearch(table, query, limit) == <<>>

\* keywordSearch(query) is called with the default limit and its promise
\* resolves
KeywordSearch(query) ==
    /\ keywordCall' = [pc |-> "returned", query |-> query,
                       results |-> keywordSearch(keywordTable, query, DefaultLimit)]
    /\ UNCHANGED <<keywordTable, barVars, documentStore, saveVars, storeVars, graphVars,
                   fuseVars, shardVars>>
(***************************************************************************)
(* useSearchStore (hooks/useSearchStore.ts) and the handleSearch of         *)
(* SearchBar (components/SearchBar.tsx)                                     *)
(***************************************************************************)
\* the texts of the search box: the queries, the empty text and a blank
BarQueries == Queries \cup {<<>>, <<" ", " ">>}

Languages == {"all", "english", "hindi", "hinglish"}

\* summaryAnswer: null
NullAnswer == [chunkId |-> "null", highlighted |-> <<>>]

\* summarySource: null
NullSource == [documentId |-> "null"]

\* the list handleSearch hands to setResults for a query: the chunks
\* executeSearchGraph returned, each with its text highlighted for the query
ResultsWithContent(chunkIds, query) ==
    [i \in 1..Len(chunkIds) |->
        [chunkId |-> chunkIds[i], documentId |-> DocOf(chunkIds[i]),
         text |-> [chunkId |-> chunkIds[i], highlighted |-> query]]]

\* the lists executeSearchGraph may resolve with
GraphAnswers == {<<>>, <<"A">>, <<"B", "A">>}

ResultLists == {ResultsWithContent(chunkIds, query) : chunkIds \in GraphAnswers,
                                                      query \in Queries}

\* the initial state of the store (useSearchStore.ts:32-38)
InitialSearchState ==
    [searchQuery |-> <<>>, language |-> "all", results |-> <<>>, isLoading |-> FALSE,
     hasResults |-> FALSE, summaryAnswer |-> NullAnswer, summarySource |-> NullSource]

setSearchQuery(state, searchQuery) == [state EXCEPT !.searchQuery = searchQuery]

clearSearchQuery(state) ==
    [state EXCEPT !.searchQuery = <<>>, !.results = <<>>, !.hasResults = FALSE,
                  !.summaryAnswer = NullAnswer, !.summarySource = NullSource]

setLanguage(state, language) == [state EXCEPT !.language = language]

\* slip: hasResults is left as it was
setResults_KeepFlag(state, results) == [state EXCEPT !.results = results]

\* results, hasResults: results.length > 0 (useSearchStore.ts:52-55)
setResults(state, results) ==
    [state EXCEPT !.results = results, !.hasResults = Len(results) > 0]

clearResults(state) ==
    [state EXCEPT !.results = <<>>, !.hasResults = FALSE,
                  !.summaryAnswer = NullAnswer, !.summarySource = NullSource]

\* slip: the flag is raised whatever the argument
setLoading_AlwaysTrue(state, isLoading) == [state EXCEPT !.isLoading = TRUE]

setLoading(state, isLoading) == [state EXCEPT !.isLoading = isLoading]

\* source defaults to null (useSearchStore.ts:66-69)
setSummaryAnswer(state, answer, source) ==
    [state EXCEPT !.summaryAnswer = answer, !.summarySource = source]

\* a component calls an action of the store
SetSearchQuery(query) ==
    /\ searchStore' = setSearchQuery(searchStore, query)
    /\ UNCHANGED <<handlers, issued, keywordVars, documentStore, saveVars, storeVars, graphVars,
                   fuseVars, shardVars>>

ClearSearchQuery ==
    /\ searchStore' = clearSearchQuery(searchStore)
    /\ UNCHANGED <<handlers, issued, keywordVars, documentStore, saveVars, storeVars, graphVars,
                   fuseVars, shardVars>>

SetLanguage(language) ==
    /\ searchStore' = setLanguage(searchStore, language)
    /\ UNCHANGED <<handlers, issued, keywordVars, documentStore, saveVars, storeVars, graphVars,
                   fuseVars, shardVars>>

SetResults(results) ==
    /\ searchStore' = setResults(searchStore, results)
    /\ UNCHANGED <<handlers, issued, keywordVars, documentStore, saveVars, storeVars, graphVars,
                   fuseVars, shardVars>>

ClearResults ==
    /\ searchStore' = clearResults(searchStore)
    /\ UNCHANGED <<handlers, issued, keywordVars, documentStore, saveVars, storeVars, graphVars,
                   fuseVars, shardVars>>

SetLoading(isLoading) ==
    /\ searchStore' = setLoading(searchStore, isLoading)
    /\ UNCHANGED <<handlers, issued, keywordVars, documentStore, saveVars, storeVars, graphVars,
                   fuseVars, shardVars>>

SetSummaryAnswer(answer, source) ==
    /\ searchStore' = setSummaryAnswer(searchStore, answer, source)
    /\ UNCHANGED <<handlers, issued, keywordVars, documentStore, saveVars, storeVars, graphVars,
                   fuseVars, shardVars>>

\* the handleSearch calls that may be in flight together
Handlers == {"h1", "h2"}

\* outcome: "blank" (returned at once), "set" (results and summary were
\* set) or "caught" (the catch block ran)
NoHandler == [pc |-> "idle", query |-> <<>>, answer |-> <<>>, outcome |-> "none"]

NoIssued == [handler |-> "none", query |-> <<>>]

InFlight(h) == handlers[h].pc \in {"search", "log", "documents"}

\* finally { setLoading(false) } and the return of handleSearch
\* (SearchBar.tsx:95-99)
Finally(h, how) ==
    [handlers EXCEPT ![h] = [@ EXCEPT !.pc = "done", !.outcome = how]]

\* Enter is pressed: handleSearch returns for a blank query, else sets
\* isLoading and awaits executeSearchGraph(searchQuery) (SearchBar.tsx:28-35)
HandleSearch(h) ==
    /\ ~InFlight(h)
    /\ IF trim(searchStore.searchQuery) = <<>>
       THEN /\ handlers' = [handlers EXCEPT ![h] =
                               [NoHandler EXCEPT !.pc = "done", !.outcome = "blank"]]
            /\ UNCHANGED <<searchStore, issued>>
       ELSE /\ searchStore' = setLoading(searchStore, TRUE)
            /\ handlers' = [handlers EXCEPT ![h] =
                               [NoHandler EXCEPT !.pc = "search",
                                                 !.query = searchStore.searchQuery]]
            /\ issued' = [handler |-> h, query |-> searchStore.searchQuery]
    /\ UNCHANGED <<keywordVars, documentStore, saveVars, storeVars, graphVars, fuseVars,
                   shardVars>>

\* executeSearchGraph resolves with a list and logSearch is awaited
\* (SearchBar.tsx:35-38)
ExecuteSearchGraphResolves(h, chunkIds) ==
    /\ handlers[h].pc = "search"
    /\ handlers' = [handlers EXCEPT ![h] = [@ EXCEPT !.pc = "log", !.answer = chunkIds]]
    /\ UNCHANGED <<searchStore, issued, keywordVars, documentStore, saveVars, storeVars,
                   graphVars, fuseVars, shardVars>>

\* executeSearchGraph rejects: catch, then finally (SearchBar.tsx:95-99)
ExecuteSearchGraphRejects(h) ==
    /\ handlers[h].pc = "search"
    /\ searchStore' = setLoading(searchStore, FALSE)
    /\ handlers' = Finally(h, "caught")
    /\ UNCHANGED <<issued, keywordVars, documentStore, saveVars, storeVars, graphVars, fuseVars,
                   shardVars>>

\* logSearch resolves and the lookups of the documents are awaited
\* (SearchBar.tsx:38-79)
LogSearchResolves(h) ==
    /\ handlers[h].pc = "log"
    /\ handlers' = [handlers EXCEPT ![h] = [@ EXCEPT !.pc = "documents"]]
    /\ UNCHANGED <<searchStore, issued, keywordVars, documentStore, saveVars, storeVars,
                   graphVars, fuseVars, shardVars>>

\* Promise.all resolves: setResults, setSummaryAnswer with the first result
\* or null, then finally (SearchBar.tsx:82-99); the documents looked up are
\* the stored ones
DocumentsResolve(h) ==
    /\ handlers[h].pc = "documents"
    /\ LET resultsWithContent == ResultsWithContent(handlers[h].answer, handlers[h].query)
           withResults == setResults(searchStore, resultsWithContent)
           withSummary ==
               IF Len(resultsWithContent) > 0
               THEN setSummaryAnswer(withResults, resultsWithContent[1].text,
                                     [documentId |-> resultsWithContent[1].documentId])
               ELSE setSummaryAnswer(withResults, NullAnswer, NullSource)
       IN  searchStore' = setLoading(withSummary, FALSE)
    /\ handlers' = Finally(h, "set")
    /\ UNCHANGED <<issued, keywordVars, documentStore, saveVars, storeVars, graphVars, fuseVars,
                   shardVars>>

\* a getDocumentById rejects: catch, then finally (SearchBar.tsx:46, 95-99)
DocumentsReject(h) ==
    /\ handlers[h].pc = "documents"
    /\ handlers[h].answer # <<>>
    /\ searchStore' = setLoading(searchStore, FALSE)
    /\ handlers' = Finally(h, "caught")
    /\ UNCHANGED <<issued, keywordVars, documentStore, saveVars, storeVars, graphVars, fuseVars,
                   shardVars>>
(***************************************************************************)
(* useDocumentStore (hooks/useDocumentStore.ts): documents,                 *)
(* selectedDocument and stats                                               *)
(***************************************************************************)
\* addDocument calls are counted up to this many stored documents
MaxDocuments == 2

StoreDocumentIds == {"d1", "d2"}

\* the documents a caller may add; a size is a number of bytes
NewDocuments == [id : StoreDocumentIds, name : {"v1"}, size : {10, 20}]

\* a field the Partial<Document> of updateDocument does not have
Keep == "keep"

\* the partial documents updateDocument is given: a name, a size, both, or
\* an id
Patches ==
    {[id |-> Keep, name |-> "v2", size |-> Undefined],
     [id |-> Keep, name |-> Keep, size |-> 30],
     [id |-> Keep, name |-> "v2", size |-> 30],
     [id |-> "d2", name |-> Keep, size |-> Undefined]}

\* selectedDocument: null
NullDocument == [id |-> "null", name |-> "null", size |-> 0]

\* the initial state (useDocumentStore.ts:32-45)
InitialDocumentState ==
    [documents |-> <<>>, selectedDocument |-> NullDocument,
     stats |-> [totalDocuments |-> 0, storageUsed |-> 0]]

\* documents.reduce((acc, doc) => acc + doc.size, 0)
RECURSIVE TotalSize(_)
TotalSize(documents) ==
    IF documents = <<>> THEN 0 ELSE Head(documents).size + TotalSize(Tail(documents))

\* { ...doc, ...document }
Spread(doc, patch) ==
    [id |-> IF patch.id = Keep THEN doc.id ELSE patch.id,
     name |-> IF patch.name = Keep THEN doc.name ELSE patch.name,
     size |-> IF patch.size = Undefined THEN doc.size ELSE patch.size]

\* useDocumentStore.ts:47-63
addDocument(state, document) ==
    LET documents == Append(state.documents, document)
    IN  [state EXCEPT !.documents = documents,
                      !.stats = [totalDocuments |-> Len(documents),
                                 storageUsed |-> TotalSize(documents)]]

\* slip: the selection is kept
removeDocument_KeepSelection(state, id) ==
    LET documents == SelectSeq(state.documents, LAMBDA doc : doc.id # id)
    IN  [state EXCEPT !.documents = documents,
                      !.stats = [totalDocuments |-> Len(documents),
                                 storageUsed |-> TotalSize(documents)]]

\* useDocumentStore.ts:65-83
removeDocument(state, id) ==
    LET documents == SelectSeq(state.documents, LAMBDA doc : doc.id # id)
    IN  [state EXCEPT !.documents = documents,
                      !.selectedDocument = IF @ # NullDocument /\ @.id = id
                                           THEN NullDocument ELSE @,
                      !.stats = [totalDocuments |-> Len(documents),
                                 storageUsed |-> TotalSize(documents)]]

\* useDocumentStore.ts:85-98: stats is not among the fields returned
updateDocument(state, id, patch) ==
    [state EXCEPT !.documents = [i \in 1..Len(@) |->
                                    IF @[i].id = id THEN Spread(@[i], patch) ELSE @[i]],
                  !.selectedDocument = IF @ # NullDocument /\ @.id = id
                                       THEN Spread(@, patch) ELSE @]

\* state.documents.find((doc) => doc.id === id) || null; id null: null
\* (useDocumentStore.ts:100-106)
selectDocument(state, id) ==
    [state EXCEPT !.selectedDocument =
        IF id # "null" /\ \E i \in 1..Len(state.documents) : state.documents[i].id = id
        THEN state.documents[CHOOSE i \in 1..Len(state.documents) :
                                 /\ state.documents[i].id = id
                                 /\ \A j \in 1..(i - 1) : state.documents[j].id # id]
        ELSE NullDocument]

\* a component calls an action of the store
AddDocument(document) ==
    /\ Len(documentStore.documents) < MaxDocuments
    /\ documentStore' = addDocument(documentStore, document)
    /\ UNCHANGED <<keywordVars, barVars, saveVars, storeVars, graphVars, fuseVars, shardVars>>

RemoveDocument(id) ==
    /\ documentStore' = removeDocument(documentStore, id)
    /\ UNCHANGED <<keywordVars, barVars, saveVars, storeVars, graphVars, fuseVars, shardVars>>

UpdateDocument(id, patch) ==
    /\ documentStore' = updateDocument(documentStore, id, patch)
    /\ UNCHANGED <<keywordVars, barVars, saveVars, storeVars, graphVars, fuseVars, shardVars>>

SelectDocument(id) ==
    /\ documentStore' = selectDocument(documentStore, id)
    /\ UNCHANGED <<keywordVars, barVars, saveVars, storeVars, graphVars, fuseVars, shardVars>>

(***************************************************************************)
(* saveDocument (lib/storage.ts:60-99), called by processFile               *)
(* (fileProcessing, step 8)                                                 *)
(***************************************************************************)
FileNames == {"a.txt", "b.pdf"}

\* the document object processFile builds: id is chunks[0].documentId, name
\* is file.name, content.fullText is the text read and content.chunks is
\* chunksWithEmbeddings
FullTexts == {"one chunk of text", "two chunks of text"}

UploadedDocuments ==
    {[id |-> DocOf(chunks[1].id), name |-> name,
      content |-> [fullText |-> text, chunks |-> chunks]] :
        chunks \in DocumentChunkLists, name \in FileNames, text \in FullTexts}

NoDocument == [id |-> "null", name |-> "null", content |-> [fullText |-> "null"]]

SaveIdle ==
    /\ callerDocument = NoDocument
    /\ savePc = "idle"
    /\ documentsStore = {}
    /\ chunksStore = {}

\* delete object.chunks: the property is removed from the object
DeleteChunks(content) == [field \in DOMAIN content \ {"chunks"} |-> content[field]]

\* const documentToStore = { ...document }: the copy is shallow, so
\* documentToStore.content is the object document.content, and
\* delete documentToStore.content.chunks removes the property from the
\* caller's document as well (storage.ts:75-76)
DocumentToStore(doc) == [doc EXCEPT !.content = DeleteChunks(doc.content)]

DocumentAfterDelete(doc) == [doc EXCEPT !.content = DeleteChunks(doc.content)]

\* processFile: await saveDocument(document); the call awaits
\* initializeDatabase()
SaveDocument(doc) ==
    /\ savePc = "idle"
    /\ callerDocument' = doc
    /\ savePc' = "opening"
    /\ UNCHANGED <<documentsStore, chunksStore, keywordVars, barVars, documentStore,
                   storeVars, graphVars, fuseVars, shardVars>>

\* initializeDatabase rejects (request.onerror, storage.ts:18-21): the
\* call rejects before its promise executor ran
DatabaseFails ==
    /\ savePc = "opening"
    /\ savePc' = "rejected"
    /\ UNCHANGED <<callerDocument, documentsStore, chunksStore, keywordVars, barVars,
                   documentStore, storeVars, graphVars, fuseVars, shardVars>>

\* initializeDatabase resolves: the promise executor opens the transaction,
\* makes documentToStore, deletes its content.chunks and issues
\* documentsStore.put(documentToStore)
DatabaseOpens ==
    /\ savePc = "opening"
    /\ callerDocument' = DocumentAfterDelete(callerDocument)
    /\ savePc' = "putDocument"
    /\ UNCHANGED <<documentsStore, chunksStore, keywordVars, barVars, documentStore,
                   storeVars, graphVars, fuseVars, shardVars>>

\* documentRequest.onerror: reject(new Error('Failed to store document'))
DocumentPutFails ==
    /\ savePc = "putDocument"
    /\ savePc' = "rejected"
    /\ UNCHANGED <<callerDocument, documentsStore, chunksStore, keywordVars, barVars,
                   documentStore, storeVars, graphVars, fuseVars, shardVars>>

\* documentRequest.onsuccess: document.content.chunks.map(...).  When
\* content has no chunks property the handler throws a TypeError: an
\* exception in a success handler aborts the transaction, which undoes the
\* put, fires abort (no handler is set for it) and no error event, so
\* neither resolve nor reject is ever called.  Otherwise one put per chunk
\* is issued on chunksStore.
DocumentPutSucceeds ==
    /\ savePc = "putDocument"
    /\ IF "chunks" \in DOMAIN callerDocument.content
       THEN /\ savePc' = "putChunks"
            /\ documentsStore' = documentsStore \cup {DocumentToStore(callerDocument)}
       ELSE /\ savePc' = "hung"
            /\ documentsStore' = documentsStore
    /\ UNCHANGED <<callerDocument, chunksStore, keywordVars, barVars, documentStore,
                   storeVars, graphVars, fuseVars, shardVars>>
(***************************************************************************)
(* Specifications                                                          *)
(***************************************************************************)
StoreIdle ==
    /\ adding = <<>>
    /\ addCall = NoAddCall
    /\ addResult = "none"
    /\ removed = {}
    /\ lastRemoved = 0
    /\ embeddingStore = [c \in UploadChunkIds |-> NoEmbedding]
    /\ loading = NotLoading
    /\ searching = NotSearching
    /\ searchOut = NoSearch

GraphIdle ==
    /\ pc = "idle"
    /\ context = NoContext
    /\ visitedNodes = {}
    /\ branch = [b \in BranchNodes |-> NoBranch]
    /\ settledOrder = <<>>
    /\ outcome = [status |-> "none", value |-> <<>>]
    /\ caught = {}

FuseIdle ==
    /\ fuseVector = <<>>
    /\ fuseKeyword = <<>>
    /\ fuseOut = <<>>
    /\ fusePc = "off"

BloomIdle ==
    /\ bloomTerm = <<>>
    /\ bloomFilter = <<>>
    /\ bloomAnswer = FALSE
    /\ bloomPc = "off"

ManagerIdle ==
    /\ manifest = NullManifest
    /\ db = "null"
    /\ metadataStore = NullManifest
    /\ initializing = NotInitializing
    /\ relevant = NoRelevant

CacheIdle ==
    /\ cache = <<>>
    /\ shardStore = {}
    /\ clock = 0
    /\ loads = <<>>
    /\ hung = FALSE

ShardIdle == BloomIdle /\ ManagerIdle /\ CacheIdle

KeywordIdle ==
    /\ keywordTable = [c \in ChunkIds |-> NoText]
    /\ keywordCall = NoKeywordCall

BarIdle ==
    /\ searchStore = InitialSearchState
    /\ handlers = <<>>
    /\ issued = NoIssued

DocumentIdle == documentStore = InitialDocumentState /\ SaveIdle

UiIdle == KeywordIdle /\ BarIdle /\ DocumentIdle

\* Spec: one query at a time runs over an index of any content
Init ==
    /\ vectorIndex \in Indexes
    /\ StoreIdle
    /\ GraphIdle
    /\ UiIdle
    /\ FuseIdle
    /\ ShardIdle

Next ==
    \/ \E query \in Queries : ExecuteSearchGraph(query)
    \/ RunStart
    \/ RunDetectLanguage
    \/ RunExtractKeywords
    \/ VectorSearchResolves
    \/ VectorSearchRejects
    \/ KeywordSearchResolves
    \/ KeywordSearchRejects
    \/ Join
    \/ Return

Spec == Init /\ [][Next]_vars

\* SpecFault: Spec with exceptions thrown outside the try blocks of the nodes
FaultNext ==
    \/ Next
    \/ MainNodeThrows
    \/ \E b \in BranchNodes : BranchNodeThrows(b)
    \/ JoinThrows

SpecFault == Init /\ [][FaultNext]_vars

\* SpecNodes: Spec with the detectLanguage node of either definition in the
\* file
NodesNext ==
    \/ Next
    \/ \E detection \in Detections : RunDetectLanguageEarlier(detection)

SpecNodes == Init /\ [][NodesNext]_vars

\* SpecStore: the callers of the vector index
StoreInit ==
    /\ vectorIndex = <<>>
    /\ StoreIdle
    /\ GraphIdle
    /\ UiIdle
    /\ FuseIdle
    /\ ShardIdle

StoreNext ==
    \/ \E chunks \in ChunkLists : AddToVectorStore(chunks)
    \/ GenerateEmbeddingsResolves
    \/ IndexNextChunk
    \/ AddToVectorStoreFails
    \/ \E documentId \in DocumentIds : RemoveFromVectorStore(documentId)

SpecStore == StoreInit /\ [][StoreNext]_vars

\* SpecLoad: the index is filled by addToVectorStore and reloaded from storage
\* by initVectorStore
LoadNext ==
    \/ \E chunks \in ChunkLists : AddToVectorStore(chunks)
    \/ GenerateEmbeddingsResolves
    \/ IndexNextChunk
    \/ AddToVectorStoreFails
    \/ InitVectorStore
    \/ \E chunkIds \in StoredChunkLists : GetAllDocumentsResolves(chunkIds)
    \/ GetEmbeddingResolves
    \/ InitVectorStoreCatches

SpecLoad == StoreInit /\ [][LoadNext]_vars


\* SpecSearch: searches of an index that addToVectorStore calls fill
SearchNext ==
    \/ \E chunks \in ChunkLists : AddToVectorStore(chunks)
    \/ GenerateEmbeddingsResolves
    \/ IndexNextChunk
    \/ AddToVectorStoreFails
    \/ \E query \in Queries, limit \in SearchLimits : SearchCalled(query, limit)
    \/ SearchResolves
    \/ SearchCatches

SpecSearch == StoreInit /\ [][SearchNext]_vars

\* SpecMutate: addToVectorStore, removeFromVectorStore and search calls
\* interleave at their await points; the searches use one query and the
\* default limit
MutateQuery == CHOOSE query \in Queries : Embed(query) = <<3, 4>>

MutateNext ==
    \/ \E chunks \in DocumentChunkLists : AddToVectorStore(chunks)
    \/ GenerateEmbeddingsResolves
    \/ IndexNextChunk
    \/ AddToVectorStoreFails
    \/ \E documentId \in DocumentIds : RemoveFromVectorStore(documentId)
    \/ SearchCalled(MutateQuery, DefaultLimit)
    \/ SearchResolves
    \/ SearchCatches

SpecMutate == StoreInit /\ [][MutateNext]_vars

\* SpecReload: uploads of new chunks, removals and reloads of the index from
\* storage interleave; a chunk list is only added when none of its chunk ids
\* has been saved or indexed before (the ids are crypto.randomUUID values)
FreshChunks(chunks) ==
    \A i \in 1..Len(chunks) :
        /\ embeddingStore[chunks[i].id] = NoEmbedding
        /\ \A j \in 1..Len(vectorIndex) : vectorIndex[j].chunkId # chunks[i].id

ReloadNext ==
    \/ \E chunks \in DocumentChunkLists : FreshChunks(chunks) /\ AddToVectorStore(chunks)
    \/ GenerateEmbeddingsResolves
    \/ IndexNextChunk
    \/ AddToVectorStoreFails
    \/ \E documentId \in DocumentIds : RemoveFromVectorStore(documentId)
    \/ InitVectorStore
    \/ \E chunkIds \in StoredChunkLists : GetAllDocumentsResolves(chunkIds)
    \/ GetEmbeddingResolves
    \/ InitVectorStoreCatches

SpecReload == StoreInit /\ [][ReloadNext]_vars

\* SpecBloom: a term is put into a filter of some length and looked up
BloomInit ==
    /\ vectorIndex = <<>>
    /\ StoreIdle
    /\ GraphIdle
    /\ UiIdle
    /\ FuseIdle
    /\ bloomTerm = <<>>
    /\ bloomFilter = <<>>
    /\ bloomAnswer = FALSE
    /\ bloomPc = "ready"
    /\ ManagerIdle
    /\ CacheIdle

BloomNext ==
    \/ \E term \in Terms, length \in 1..MaxFilter : BloomInsert(term, length)
    \/ BloomCheck

SpecBloom == BloomInit /\ [][BloomNext]_vars

\* SpecShard: a manager over any stored manifest, or none, is initialized
\* and asked for the shards of a query
ShardInit ==
    /\ vectorIndex = <<>>
    /\ StoreIdle
    /\ GraphIdle
    /\ UiIdle
    /\ FuseIdle
    /\ BloomIdle
    /\ manifest = NullManifest
    /\ db = "null"
    /\ metadataStore \in {NullManifest} \cup Manifests
    /\ initializing = NotInitializing
    /\ relevant = NoRelevant
    /\ CacheIdle

ShardNext ==
    \/ Initialize
    \/ GetMetadataResolves
    \/ SaveMetadataResolves
    \/ InitializeDatabaseResolves
    \/ \E query \in Queries :
           \E embedding \in {NoEmbedding, Embed(query)} :
               GetRelevantShards(query, embedding)

SpecShard == ShardInit /\ [][ShardNext]_vars

\* SpecCache: loadShard calls overlap each other and the initialization of a
\* manager that finds no stored manifest
CacheInit ==
    /\ vectorIndex = <<>>
    /\ StoreIdle
    /\ GraphIdle
    /\ UiIdle
    /\ FuseIdle
    /\ BloomIdle
    /\ ManagerIdle
    /\ cache = <<>>
    /\ shardStore = {}
    /\ clock = 0
    /\ loads = [call \in Callers |-> NoLoad]
    /\ hung = FALSE

CacheNext ==
    \/ Initialize
    \/ GetMetadataResolves
    \/ SaveMetadataResolves
    \/ InitializeDatabaseResolves
    \/ \E call \in Callers, shardId \in RemoteShards : LoadShard(call, shardId)
    \/ \E call \in Callers : IndexedDBSettles(call)
    \/ \E call \in Callers, ok \in BOOLEAN : FetchResolves(call, ok)
    \/ \E call \in Callers : FetchRejects(call)
    \/ \E call \in Callers : ArrayBufferResolves(call)
    \/ \E call \in Callers : SaveSettles(call)
    \/ Tick

SpecCache == CacheInit /\ [][CacheNext]_vars

\* SpecPersist: loadShard calls on a manager whose database has a
\* 'shard_cache' store, holding any of the shards
PersistInit ==
    /\ vectorIndex = <<>>
    /\ StoreIdle
    /\ GraphIdle
    /\ UiIdle
    /\ FuseIdle
    /\ BloomIdle
    /\ manifest = EmptyManifest
    /\ db = "seeded"
    /\ metadataStore = EmptyManifest
    /\ initializing = [pc |-> "resolved", missing |-> FALSE]
    /\ relevant = NoRelevant
    /\ cache = <<>>
    /\ shardStore \in SUBSET {ShardBuffer(shardId) : shardId \in RemoteShards}
    /\ clock = 0
    /\ loads = [call \in Callers |-> NoLoad]
    /\ hung = FALSE

PersistNext ==
    \/ \E call \in Callers, shardId \in RemoteShards : LoadShard(call, shardId)
    \/ \E call \in Callers : IndexedDBSettles(call)
    \/ \E call \in Callers, ok \in BOOLEAN : FetchResolves(call, ok)
    \/ \E call \in Callers : FetchRejects(call)
    \/ \E call \in Callers : ArrayBufferResolves(call)
    \/ \E call \in Callers : SaveSettles(call)
    \/ Tick

SpecPersist == PersistInit /\ [][PersistNext]_vars
(***************************************************************************)
(* Specifications of the keyword search and of the stores                   *)
(***************************************************************************)
\* SpecKeyword: keyword searches over any content of document_chunks
KeywordInit ==
    /\ vectorIndex = <<>>
    /\ StoreIdle
    /\ GraphIdle
    /\ FuseIdle
    /\ ShardIdle
    /\ keywordTable \in KeywordTables
    /\ keywordCall = NoKeywordCall
    /\ BarIdle
    /\ DocumentIdle

KeywordNext == \E query \in KeywordQueries : KeywordSearch(query)

SpecKeyword == KeywordInit /\ [][KeywordNext]_vars

\* SpecSearchStore: components call the actions of useSearchStore in any
\* order
SearchStoreInit ==
    /\ vectorIndex = <<>>
    /\ StoreIdle
    /\ GraphIdle
    /\ FuseIdle
    /\ ShardIdle
    /\ UiIdle

SearchStoreNext ==
    \/ \E query \in BarQueries : SetSearchQuery(query)
    \/ ClearSearchQuery
    \/ \E language \in Languages : SetLanguage(language)
    \/ \E results \in ResultLists : SetResults(results)
    \/ ClearResults
    \/ \E isLoading \in BOOLEAN : SetLoading(isLoading)
    \/ \E results \in ResultLists :
           IF results = <<>>
           THEN SetSummaryAnswer(NullAnswer, NullSource)
           ELSE SetSummaryAnswer(results[1].text, [documentId |-> results[1].documentId])

SpecSearchStore == SearchStoreInit /\ [][SearchStoreNext]_vars

\* SpecBar: the user types and presses Enter while earlier searches are in
\* flight; every promise handleSearch awaits settles.  The language, which
\* handleSearch only passes to logSearch, stays 'all'.
BarInit ==
    /\ vectorIndex = <<>>
    /\ StoreIdle
    /\ GraphIdle
    /\ FuseIdle
    /\ ShardIdle
    /\ KeywordIdle
    /\ searchStore = InitialSearchState
    /\ handlers = [h \in Handlers |-> NoHandler]
    /\ issued = NoIssued
    /\ DocumentIdle

Settles(h) ==
    \/ \E chunkIds \in GraphAnswers : ExecuteSearchGraphResolves(h, chunkIds)
    \/ ExecuteSearchGraphRejects(h)
    \/ LogSearchResolves(h)
    \/ DocumentsResolve(h)
    \/ DocumentsReject(h)

BarNext ==
    \/ \E query \in BarQueries : SetSearchQuery(query)
    \/ \E h \in Handlers : HandleSearch(h)
    \/ \E h \in Handlers : Settles(h)

SpecBar == BarInit /\ [][BarNext]_vars /\ \A h \in Handlers : WF_vars(Settles(h))

\* SpecDocuments: components call the actions of useDocumentStore in any
\* order
DocumentsNext ==
    \/ \E document \in NewDocuments : AddDocument(document)
    \/ \E id \in StoreDocumentIds : RemoveDocument(id)
    \/ \E id \in StoreDocumentIds, patch \in Patches : UpdateDocument(id, patch)
    \/ \E id \in StoreDocumentIds \cup {"null"} : SelectDocument(id)

SpecDocuments == SearchStoreInit /\ [][DocumentsNext]_vars

\* SpecSave: processFile saves the document it has built; the database
\* opens or fails to open, and the put of the document succeeds or fails
SaveInit ==
    /\ vectorIndex = <<>>
    /\ StoreIdle
    /\ GraphIdle
    /\ FuseIdle
    /\ ShardIdle
    /\ UiIdle

SaveNext ==
    \/ \E doc \in UploadedDocuments : SaveDocument(doc)
    \/ DatabaseFails
    \/ DatabaseOpens
    \/ DocumentPutFails
    \/ DocumentPutSucceeds

SpecSave == SaveInit /\ [][SaveNext]_vars
(***************************************************************************)
(* Harness for rankAndCombineResults as a pure function                     *)
(***************************************************************************)
MaxList == 2

\* cosine similarities as vectorStore.search reports them
VectorScores == {-600, 550, 900}

\* term-overlap ratios as keywordSearch reports them
KeywordScores == {400, 600}

\* a SearchResult of vectorStore.search (vectorStore.ts:106-115)
VectorResult(chunkId, score) ==
    SearchResult([chunkId |-> chunkId, documentId |-> DocOf(chunkId)], score)

\* a row of keywordSearch (duckdb.ts:186-194): it has no matchPercentage
KeywordResult(chunkId, score) ==
    [chunkId |-> chunkId, documentId |-> DocOf(chunkId), score |-> score,
     matchPercentage |-> Undefined]

ListsOver(S) == UNION {[1..n -> S] : n \in 0..MaxList}

VectorLists == ListsOver({VectorResult(c, s) : c \in ChunkIds, s \in VectorScores})

KeywordLists == ListsOver({KeywordResult(c, s) : c \in ChunkIds, s \in KeywordScores})

FuseInit ==
    /\ vectorIndex = <<>>
    /\ StoreIdle
    /\ GraphIdle
    /\ UiIdle
    /\ fuseVector \in VectorLists
    /\ fuseKeyword \in KeywordLists
    /\ fuseOut = <<>>
    /\ fusePc = "ready"
    /\ ShardIdle

Fuse ==
    /\ fusePc = "ready"
    /\ fuseOut' = rankAndCombineResults(fuseVector, fuseKeyword)
    /\ fuseVector' = VectorAfterFusion(fuseVector, fuseKeyword)
    /\ fuseKeyword' = KeywordAfterFusion(fuseVector, fuseKeyword)
    /\ fusePc' = "done"
    /\ UNCHANGED <<storeVars, graphVars, shardVars, uiVars>>

FuseNext == Fuse

SpecFuse == FuseInit /\ [][FuseNext]_vars

(***************************************************************************)
(* Properties of rankAndCombineResults (checked under SpecFuse)             *)
(***************************************************************************)
Occurs(list, chunkId) == \E i \in 1..Len(list) : list[i].chunkId = chunkId

ScoresOf(list, chunkId) ==
    IF Occurs(list, chunkId)
    THEN {list[i].score : i \in {j \in 1..Len(list) : list[j].chunkId = chunkId}}
    ELSE {0}

LastScoreOf(list, chunkId) ==
    IF Occurs(list, chunkId)
    THEN list[CHOOSE i \in 1..Len(list) :
                 /\ list[i].chunkId = chunkId
                 /\ \A j \in (i + 1)..Len(list) : list[j].chunkId # chunkId].score
    ELSE 0

RECURSIVE SumWeightedOf(_, _, _)
SumWeightedOf(list, chunkId, tenths) ==
    IF list = <<>> THEN 0
    ELSE (IF Head(list).chunkId = chunkId THEN Weighted(Head(list).score, tenths) ELSE 0)
         + SumWeightedOf(Tail(list), chunkId, tenths)

NoRepeatedId(list) ==
    \A i, j \in 1..Len(list) : list[i].chunkId = list[j].chunkId => i = j

SortedDesc(list) ==
    \A i, j \in 1..Len(list) : i < j => list[i].score >= list[j].score

FusedEntry(chunkId) == fuseOut[CHOOSE i \in 1..Len(fuseOut) : fuseOut[i].chunkId = chunkId]

InputIds == {fuseVector[i].chunkId : i \in 1..Len(fuseVector)}
            \cup {fuseKeyword[i].chunkId : i \in 1..Len(fuseKeyword)}

\* position at which a chunk id is first encountered: vector list first, then keyword list
FirstSeen(chunkId) ==
    LET all == fuseVector \o fuseKeyword
    IN  CHOOSE i \in 1..Len(all) :
            /\ all[i].chunkId = chunkId
            /\ \A j \in 1..(i - 1) : all[j].chunkId # chunkId

C6_MatchPercentage ==
    fusePc = "done" =>
        \A i \in 1..Len(fuseOut) :
            fuseOut[i].matchPercentage = MathRound(fuseOut[i].score * 100, Scale)

\* C7: the fused list is sorted by non-increasing combined score and entries
\* with equal score keep the order in which their chunk ids were first seen.
C7_SortedStable ==
    fusePc = "done" =>
        \A i, j \in 1..Len(fuseOut) :
            i < j =>
                /\ fuseOut[i].score >= fuseOut[j].score
                /\ fuseOut[i].score = fuseOut[j].score =>
                       FirstSeen(fuseOut[i].chunkId) < FirstSeen(fuseOut[j].chunkId)

\* two entries tie and a third one was moved by the sort
C7_Witness ==
    /\ fusePc = "done"
    /\ Len(fuseOut) = 2
    /\ fuseOut[1].score = fuseOut[2].score
    /\ fuseOut[1].chunkId = "B"
    /\ Len(fuseVector) = 2 /\ Len(fuseKeyword) = 0

VectorBranchResults == branch["executeVectorSearch"].context.vectorResults

KeywordBranchResults == branch["executeKeywordSearch"].context.keywordResults

IdsOf(list) == {list[i].chunkId : i \in 1..Len(list)}

VectorBranchFailed == branch["executeVectorSearch"].threw \in {"search", "embedding"}

KeywordBranchFailed == branch["executeKeywordSearch"].threw = "search"

\* C1: both search branches are started together, before either is awaited;
\* the wait node fuses only once both branches have completed, and it fuses
\* what the two branches produced; executeSearchGraph does not resolve
\* before that join has run.
C1_ExplicitJoin ==
    /\ (\E b \in BranchNodes : branch[b].state # "unstarted") =>
           (\A b \in BranchNodes : branch[b].state # "unstarted")
    /\ pc = "awaitBranches" => \A b \in BranchNodes : branch[b].state # "unstarted"
    /\ context.isDualSearch =>
           /\ \A b \in BranchNodes : branch[b].state = "settled"
           /\ context.combinedResults =
                  rankAndCombineResults(VectorBranchResults, KeywordBranchResults)
    /\ outcome.status = "resolved" => context.isDualSearch

\* the keyword branch completed first, the vector branch second, and the
\* query resolved with chunks of both
C1_Witness ==
    /\ outcome.status = "resolved"
    /\ settledOrder = <<"executeKeywordSearch", "executeVectorSearch">>
    /\ Len(VectorBranchResults) > 0
    /\ Len(KeywordBranchResults) > 0
    /\ context.isDualSearch

\* C2: when a search throws inside its branch node the buffer of that
\* branch is the empty list, the results of the other branch are still fused
\* and returned, and executeSearchGraph does not reject; when the embedding
\* provider throws, the returned chunks are exactly those of the lexical search.
C2_BranchFailureIsolated ==
    /\ \A b \in BranchNodes :
           (branch[b].state = "settled" /\ branch[b].threw # "no") =>
               IF b = "executeVectorSearch"
               THEN VectorBranchResults = <<>>
               ELSE KeywordBranchResults = <<>>
    /\ outcome.status # "rejected"
    /\ outcome.status = "resolved" =>
           /\ VectorBranchFailed =>
                  /\ outcome.value = rankAndCombineResults(<<>>, KeywordBranchResults)
                  /\ IdsOf(outcome.value) = IdsOf(KeywordBranchResults)
           /\ KeywordBranchFailed =>
                  /\ outcome.value = rankAndCombineResults(VectorBranchResults, <<>>)
                  /\ IdsOf(outcome.value) = IdsOf(VectorBranchResults)

\* the embedding provider threw and the query resolved with the two chunks
\* of the lexical search
C2_Witness ==
    /\ outcome.status = "resolved"
    /\ branch["executeVectorSearch"].threw = "embedding"
    /\ Len(KeywordBranchResults) = 2
    /\ IdsOf(outcome.value) = {"A", "B"}

\* C3 as stated: whichever node throws, and also when the merge of the
\* branch results throws, the promise of executeSearchGraph never rejects and
\* resolves with the results present in the context.
C3_NeverRejects ==
    /\ outcome.status # "rejected"
    /\ outcome.status = "resolved" => outcome.value = ResultPriority(context)

\* C4: executeSearchGraph resolves with the fused list when it is non-empty,
\* else with the vector list when that is non-empty, else with the lexical
\* list; it resolves with the empty list only when neither branch produced
\* a result.
C4_OutputPriority ==
    outcome.status = "resolved" =>
        /\ outcome.value =
               IF context.combinedResults # <<>> THEN context.combinedResults
               ELSE IF context.vectorResults # <<>> THEN context.vectorResults
               ELSE context.keywordResults
        /\ outcome.value = <<>> =>
               (VectorBranchResults = <<>> /\ KeywordBranchResults = <<>>)

\* both branches produced results and the fused list was returned
C4_Witness ==
    /\ outcome.status = "resolved"
    /\ Len(VectorBranchResults) > 0
    /\ Len(KeywordBranchResults) > 0
    /\ outcome.value = context.combinedResults
    /\ outcome.value # context.vectorResults

\* C9 as stated: every result executeSearchGraph returns and every entry of
\* a fused list has a score from 0 to 1.
C9_ScoreInUnitInterval ==
    /\ \A i \in 1..Len(context.combinedResults) :
           /\ context.combinedResults[i].score >= 0
           /\ context.combinedResults[i].score <= Scale
    /\ outcome.status = "resolved" =>
           \A i \in 1..Len(outcome.value) :
               /\ outcome.value[i].score >= 0
               /\ outcome.value[i].score <= Scale

(***************************************************************************)
(* Properties of the vector index (checked under SpecStore)                 *)
(***************************************************************************)
HasDocument(index, documentId) ==
    \E i \in 1..Len(index) : index[i].documentId = documentId

\* the documents of the chunks a search of the index returns, for any query
SearchableDocuments(index) ==
    UNION {{search(index, Embed(q), VectorSearchLimit)[i].documentId :
                i \in 1..Len(search(index, Embed(q), VectorSearchLimit))} :
           q \in Queries}

\* C10: a removeFromVectorStore(d) step leaves no entry of d in the index,
\* keeps the entries of the other documents and their order, and changes
\* nothing when d had no entry; and as long as no chunk of d is indexed
\* again, the index holds no entry of d and a search returns no chunk of d.
C10_RemoveDocument ==
    /\ [][\A d \in DocumentIds :
              RemoveFromVectorStore(d) =>
                  /\ ~HasDocument(vectorIndex', d)
                  /\ SelectSeq(vectorIndex', LAMBDA item : item.documentId # d)
                         = SelectSeq(vectorIndex, LAMBDA item : item.documentId # d)
                  /\ ~HasDocument(vectorIndex, d) => vectorIndex' = vectorIndex]_vars
    /\ [](\A d \in removed :
              /\ ~HasDocument(vectorIndex, d)
              /\ d \notin SearchableDocuments(vectorIndex))

\* a removal dropped entries of doc1, doc2 is still indexed and searchable
C10_Witness ==
    /\ "doc1" \in removed
    /\ lastRemoved > 0
    /\ HasDocument(vectorIndex, "doc2")
    /\ SearchableDocuments(vectorIndex) = {"doc2"}

(***************************************************************************)
(* Properties of addToVectorStore, initVectorStore and search               *)
(***************************************************************************)
\* C11: all entries of the vector index have the same embedding length, and
\* a step that would add an entry of another length adds nothing.
C11_UniformDimension ==
    \A i, j \in 1..Len(vectorIndex) :
        Len(vectorIndex[i].embedding) = Len(vectorIndex[j].embedding)

\* the entries of index at the positions pos, scored against queryEmbedding
Selected(index, queryEmbedding, pos) ==
    [i \in 1..Len(pos) |->
        SearchResult(index[pos[i]],
                     cosineSimilarity(queryEmbedding, index[pos[i]].embedding))]

\* out is a best choice of index entries: scores do not increase, equal scores
\* keep the order of insertion, and no entry left out beats an entry returned
IsTopK(out, index, queryEmbedding) ==
    \E pos \in [1..Len(out) -> 1..Len(index)] :
        /\ \A i, j \in 1..Len(out) : i # j => pos[i] # pos[j]
        /\ out = Selected(index, queryEmbedding, pos)
        /\ \A i, j \in 1..Len(out) :
               i < j => \/ out[i].score > out[j].score
                        \/ out[i].score = out[j].score /\ pos[i] < pos[j]
        /\ \A m \in 1..Len(index) :
               (\A i \in 1..Len(out) : pos[i] # m) =>
                   \A i \in 1..Len(out) :
                       cosineSimilarity(queryEmbedding, index[m].embedding)
                           <= out[i].score

\* C12: a search that got its query embedding returns min(limit, n) results
\* of an index of n entries, ordered by non-increasing cosine similarity with
\* ties in insertion order, and leaves out no entry more similar than one it
\* returns.
C12_TopK ==
    [][SearchResolves =>
           /\ Len(searchOut'.results) = Min(searchOut'.limit, Len(vectorIndex))
           /\ IsTopK(searchOut'.results, vectorIndex, searchOut'.queryEmbedding)]_vars

\* entry j of index has the same similarity to queryEmbedding as entry i
TiesWith(index, queryEmbedding, i, j) ==
    /\ j # i
    /\ ~CosineThrows(queryEmbedding, index[j].embedding)
    /\ cosineSimilarity(queryEmbedding, index[j].embedding)
           = cosineSimilarity(queryEmbedding, index[i].embedding)

\* C14: a search whose query embedding equals the embedding of an indexed
\* chunk returns that chunk first, whatever else the index holds, when no
\* other entry has the same similarity.
C14_AddedChunkRanksFirst ==
    [][SearchResolves =>
           \A i \in 1..Len(vectorIndex) :
               (/\ vectorIndex[i].embedding = searchOut'.queryEmbedding
                /\ \A j \in 1..Len(vectorIndex) :
                       ~TiesWith(vectorIndex, searchOut'.queryEmbedding, i, j))
               => /\ searchOut'.results # <<>>
                  /\ searchOut'.results[1].chunkId = vectorIndex[i].chunkId]_vars

\* C15: every entry of the vector index has an embedding; an entry that
\* addToVectorStore pushes carries the embedding its chunk had when
\* saveEmbedding was awaited, so a chunk that came without one was embedded
\* first; and a call that is rejected pushes nothing in the rejecting step.
C15_EmbeddingBeforeInsert ==
    /\ [](\A i \in 1..Len(vectorIndex) : vectorIndex[i].embedding \in Embeddings)
    /\ [][Len(vectorIndex') > Len(vectorIndex) /\ adding' # adding =>
              /\ Head(adding).embedding # NoEmbedding
              /\ vectorIndex'[Len(vectorIndex')].embedding = Head(adding).embedding
              /\ vectorIndex'[Len(vectorIndex')].chunkId = Head(adding).id]_vars
    /\ [][addResult = "pending" /\ addResult' = "rejected" =>
              vectorIndex' = vectorIndex]_vars

\* a chunk that came without an embedding is indexed with the vector the
\* provider returned for it, and a chunk reloaded from storage is indexed too
C15_Witness ==
    /\ addResult = "resolved"
    /\ \E i \in 1..Len(vectorIndex) :
           vectorIndex[i].embedding = EmbedChunk(vectorIndex[i].chunkId)
    /\ loading.pc = "idle"
    /\ Len(vectorIndex) = 2

(***************************************************************************)
(* Properties of the shard manager                                          *)
(***************************************************************************)
ZeroMagnitude(v) == DotProduct(v, v) = 0

\* C13: the similarity the shard manager computes between the embedding of a
\* getRelevantShards call and a shard centroid is exactly 0, not NaN, when
\* either vector has zero magnitude.
C13_ZeroMagnitudeGivesZero ==
    relevant.status = "resolved" /\ relevant.embedding # NoEmbedding =>
        \A i \in 1..Len(manifest.shards) :
            LET centroid == manifest.shards[i].centroids[1]
            IN  ZeroMagnitude(relevant.embedding) \/ ZeroMagnitude(centroid) =>
                    ShardCosineSimilarity(relevant.embedding, centroid) = 0

\* C17: checkBloomFilter answers true for a term that was put into the
\* filter, for every term and every filter length.
C17_NoFalseNegative == bloomPc = "checked" => bloomAnswer

IdsOfShards(shards) == {shards[i].id : i \in 1..Len(shards)}

\* the shards with a bloom filter some term of the query tests positive for
LexicalShards(shards, query) ==
    {shards[i].id : i \in {k \in 1..Len(shards) :
        \E t \in 1..Len(splitOnWhitespace(toLowerCase(query))) :
            checkBloomFilter(shards[k].bloomFilter,
                             splitOnWhitespace(toLowerCase(query))[t])}}

\* T holds min(k, n) shards, none of them less similar to the embedding than
\* a shard outside T; a zero-magnitude vector has similarity 0
IsNearestSet(T, shards, embedding, k) ==
    /\ T \subseteq 1..Len(shards)
    /\ Cardinality(T) = Min(k, Len(shards))
    /\ \A s \in T, t \in (1..Len(shards)) \ T :
           cosineSimilarity(embedding, shards[t].centroids[1])
               <= cosineSimilarity(embedding, shards[s].centroids[1])

\* C18: getRelevantShards returns each id once, only ids of the manifest, and
\* as a set the union of the shards a query term tests positive for and, when
\* an embedding is given, of the 3 shards nearest to it by cosine similarity.
C18_RelevantShards ==
    relevant.status = "resolved" =>
        LET shards == manifest.shards
            out == relevant.value
            lexical == LexicalShards(shards, relevant.query)
        IN  /\ \A i, j \in 1..Len(out) : i # j => out[i] # out[j]
            /\ \A i \in 1..Len(out) : out[i] \in IdsOfShards(shards)
            /\ IF relevant.embedding = NoEmbedding
               THEN {out[i] : i \in 1..Len(out)} = lexical
               ELSE \E T \in SUBSET (1..Len(shards)) :
                        /\ IsNearestSet(T, shards, relevant.embedding, NearestShards)
                        /\ {out[i] : i \in 1..Len(out)}
                               = lexical \cup {shards[s].id : s \in T}

\* C20: when getMetadata finds no manifest, initialize sets the empty
\* manifest and goes on to store it; the empty manifest is what is stored
\* once saveMetadata has resolved; and from then on getRelevantShards
\* resolves with the empty list, with or without an embedding.
C20_MissingManifest ==
    /\ [](initializing.missing =>
              /\ manifest = EmptyManifest
              /\ initializing.pc \in {"saveMetadata", "initializeDatabase", "resolved"}
              /\ initializing.pc # "saveMetadata" => metadataStore = EmptyManifest)
    /\ [][(/\ initializing.missing
           /\ \E q \in Queries : \E e \in {NoEmbedding, Embed(q)} :
                  GetRelevantShards(q, e))
          => relevant'.status = "resolved" /\ relevant'.value = <<>>]_vars

\* initialize found no manifest and resolved, and a query with an embedding
\* got the empty list
C20_Witness ==
    /\ initializing = [pc |-> "resolved", missing |-> TRUE]
    /\ metadataStore = EmptyManifest
    /\ db = "open"
    /\ relevant.status = "resolved"
    /\ relevant.embedding # NoEmbedding
    /\ relevant.value = <<>>

\* C16: whatever loads and insertions have happened, the bytes of the cache
\* entries sum to at most MAX_CACHE_SIZE, also after a shard that is already
\* cached was inserted again.
C16_CacheWithinBudget == getCacheSize(cache) <= MAX_CACHE_SIZE

\* a second overlapping load of a cached shard went through updateCache: the
\* old entry was counted, evicted to make room, and the shard set again
C16_Witness ==
    \E call \in Callers :
        /\ loads[call].pc = "save"
        /\ loads[call].reinserted
        /\ loads[call].fetch = "ok"
        /\ CacheHas(cache, loads[call].shardId)
        /\ 2 * loads[call].buffer.byteLength > MAX_CACHE_SIZE
        /\ getCacheSize(cache) >= loads[call].buffer.byteLength

\* C19: a loadShard whose fetch rejected, or was answered with a non-success
\* status, ends as failed in its next step, and that step writes neither the
\* cache nor the persistent store.
C19_FetchFailureWritesNothing ==
    [][\A call \in Callers :
           LET failedFetch == \/ loads[call].fetch = "notOk"
                              \/ loads[call].pc = "fetch" /\ FetchRejects(call)
           IN  (failedFetch /\ loads'[call] # loads[call])
                   => /\ loads'[call].pc = "failed"
                      /\ cache' = cache
                      /\ shardStore' = shardStore]_vars

\* C21: updateCache always leaves its eviction loop, whatever the cache holds
\* and whatever the size of the shard: no load is ever left inside
\* updateCache with the loop unable to end.
C21_InsertionCompletes ==
    /\ ~hung
    /\ \A call \in Callers : loads[call].pc # "updateCache"
(***************************************************************************)
(* Properties of the keyword search and of the stores                       *)
(***************************************************************************)
\* lowercase, strip punctuation, split on whitespace, drop terms of at most
\* 2 characters
KeywordTerms(query) ==
    SelectSeq(splitOnWhitespace(StripPunctuation(toLowerCase(query))),
              LAMBDA term : Len(term) > 2)

Includes(text, term) ==
    \E i \in 1..(Len(text) - Len(term) + 1) : SubSeq(text, i, i + Len(term) - 1) = term

\* the number of query terms that occur in the lowercased text
MatchCount(text, terms) ==
    Cardinality({t \in 1..Len(terms) : Includes(toLowerCase(text), terms[t])})

\* C22: keywordSearch returns exactly the chunks with a matching term, each
\* with score (matching terms) / (terms), by descending score; a chunk that
\* contains every term has score 1, and no term gives the empty list.
C22_KeywordScore ==
    keywordCall.pc = "returned" =>
        LET terms == KeywordTerms(keywordCall.query)
            out == keywordCall.results
            matching == {c \in ChunkIds : /\ keywordTable[c] # NoText
                                          /\ MatchCount(keywordTable[c], terms) > 0}
        IN  /\ {out[i].chunkId : i \in 1..Len(out)} = matching
            /\ Len(out) = Cardinality(matching)
            /\ \A i \in 1..Len(out) :
                   out[i].score * Len(terms)
                       = Scale * MatchCount(keywordTable[out[i].chunkId], terms)
            /\ \A i \in 1..(Len(out) - 1) : out[i].score >= out[i + 1].score

\* the store shows no summary
NoSummary(state) == state.summaryAnswer = NullAnswer /\ state.summarySource = NullSource

\* C27: in every state of the search store hasResults is true exactly when
\* results is non-empty, and clearResults and clearSearchQuery leave
\* summaryAnswer and summarySource null.
C27_HasResults ==
    /\ [](searchStore.hasResults <=> searchStore.results # <<>>)
    /\ [][(ClearResults \/ ClearSearchQuery) => NoSummary(searchStore')]_vars

\* results and a summary were set, and a search is marked as loading
C27_Witness ==
    /\ searchStore.hasResults
    /\ Len(searchStore.results) = 2
    /\ ~NoSummary(searchStore)
    /\ searchStore.isLoading
    /\ searchStore.searchQuery # <<>>

\* C24: once no search is in flight and the most recently issued search has
\* set its results, the results and the summary of the store are those of
\* that search.
C24_LatestQueryWins ==
    (/\ issued # NoIssued
     /\ \A h \in Handlers : ~InFlight(h)
     /\ handlers[issued.handler].outcome = "set")
        => LET latest == ResultsWithContent(handlers[issued.handler].answer, issued.query)
           IN  /\ searchStore.results = latest
               /\ IF latest = <<>> THEN NoSummary(searchStore)
                  ELSE searchStore.summaryAnswer = latest[1].text

\* C30: a handleSearch call that started a search comes to its end, its last
\* step leaves isLoading false whether it set results or caught an error,
\* and a call with a blank query starts nothing and leaves the store as it was.
C30_LoadingEnds ==
    /\ \A h \in Handlers : InFlight(h) ~> ~InFlight(h)
    /\ [][\A h \in Handlers :
              (InFlight(h) /\ handlers'[h].pc = "done")
                  => /\ ~searchStore'.isLoading
                     /\ handlers'[h].outcome \in {"set", "caught"}]_vars
    /\ [][\A h \in Handlers :
              (HandleSearch(h) /\ trim(searchStore.searchQuery) = <<>>)
                  => /\ searchStore' = searchStore
                     /\ handlers'[h].pc = "done"
                     /\ issued' = issued]_vars

\* one search ended in the catch block, another call found a blank query,
\* and nothing is loading
C30_Witness ==
    /\ \E h \in Handlers : handlers[h].outcome = "caught" /\ handlers[h].answer # <<>>
    /\ \E h \in Handlers : handlers[h].outcome = "blank"
    /\ ~searchStore.isLoading

\* C28: in every state of the document store stats.totalDocuments is the
\* number of documents and stats.storageUsed the sum of their sizes.
C28_StatsMatchDocuments ==
    /\ documentStore.stats.totalDocuments = Len(documentStore.documents)
    /\ documentStore.stats.storageUsed = TotalSize(documentStore.documents)

\* the first stored document with the id, null when there is none
StoredDocument(documents, id) ==
    IF \E i \in 1..Len(documents) : documents[i].id = id
    THEN documents[CHOOSE i \in 1..Len(documents) :
                       documents[i].id = id /\ \A j \in 1..(i - 1) : documents[j].id # id]
    ELSE NullDocument

\* C29: selectedDocument is null or one of the stored documents;
\* selectDocument(id) selects the stored document with the id, or null;
\* removeDocument of the selected id leaves null; updateDocument of the
\* selected id leaves the selection equal to an updated stored document.
C29_SelectionIsStored ==
    /\ [](\/ documentStore.selectedDocument = NullDocument
          \/ \E i \in 1..Len(documentStore.documents) :
                 documentStore.documents[i] = documentStore.selectedDocument)
    /\ [][\A id \in StoreDocumentIds \cup {"null"} :
              SelectDocument(id)
                  => documentStore'.selectedDocument
                         = StoredDocument(documentStore.documents, id)]_vars
    /\ [][\A id \in StoreDocumentIds :
              (RemoveDocument(id) /\ documentStore.selectedDocument.id = id)
                  => documentStore'.selectedDocument = NullDocument]_vars
    /\ [][\A id \in StoreDocumentIds, patch \in Patches :
              (UpdateDocument(id, patch) /\ documentStore.selectedDocument.id = id)
                  => /\ documentStore'.selectedDocument
                            = Spread(documentStore.selectedDocument, patch)
                     /\ \E i \in 1..Len(documentStore.documents) :
                            /\ documentStore.documents[i] = documentStore.selectedDocument
                            /\ documentStore'.documents[i]
                                   = documentStore'.selectedDocument]_vars

\* the selected document is the second of two stored ones and was updated
C29_Witness ==
    /\ Len(documentStore.documents) = 2
    /\ documentStore.selectedDocument = documentStore.documents[2]
    /\ documentStore.selectedDocument # documentStore.documents[1]
    /\ documentStore.selectedDocument.name = "v2"

(***************************************************************************)
(* Fallbacks of the nodes                                                  *)
(***************************************************************************)
\* the whitespace-separated words of a text that are longer than 2 characters
LongWords(text) ==
    LET words == splitOnWhitespace(text)
    IN  SelectSeq(words, LAMBDA w : Len(w) >= 3)

\* C23: when the extractKeywords node catches an exception, context.keywords
\* becomes the whitespace-split words of the query longer than 2 characters;
\* when the detectLanguage node catches one, context.language becomes
\* 'english'; in both cases the loop goes on (to extractKeywords, then to
\* both search branches), and the call still resolves with its search
\* results.
C23_Fallbacks ==
    /\ [][RunExtractKeywords /\ "extractKeywords" \in caught' =>
              /\ context'.keywords = LongWords(context.query)
              /\ pc' = "awaitBranches"
              /\ \A b \in BranchNodes : branch'[b].state = "running"]_vars
    /\ [][RunDetectLanguageEarlier("throws") =>
              /\ context'.language = "english"
              /\ pc' = "extractKeywords"]_vars
    /\ [](caught # {} /\ pc = "awaitBranches" => context.errorMessage = "none")
    /\ [](caught # {} /\ pc \in {"awaitBranches", "return", "done"} =>
              /\ outcome.status \in {"pending", "resolved"}
              /\ \A b \in BranchNodes : branch[b].state \in {"running", "settled"})
    /\ [](caught # {} /\ pc = "done" =>
              /\ outcome.status = "resolved"
              /\ outcome.value = ResultPriority(context))

\* both catch blocks ran, the fallback words differ from the extracted ones,
\* and the call resolved with a non-empty list
C23_Witness ==
    /\ pc = "done"
    /\ caught = {"detectLanguage", "extractKeywords"}
    /\ context.language = "english"
    /\ context.keywords = LongWords(context.query)
    /\ context.keywords # extractKeywords(context.query)
    /\ outcome.status = "resolved"
    /\ outcome.value # <<>>

(***************************************************************************)
(* The order in which the branches complete                                *)
(***************************************************************************)
\* the list the return statements pick for given results of the two branches
ListFor(vectorResults, keywordResults) ==
    LET combined == rankAndCombineResults(vectorResults, keywordResults)
    IN  IF combined # <<>> THEN combined
        ELSE IF vectorResults # <<>> THEN vectorResults
        ELSE keywordResults

\* C25: the list executeSearchGraph resolves with is determined by the results
\* of the two search branches alone: for the same results it is the same
\* ordered list whether the vector branch or the keyword branch completed
\* first.
C25_CompletionOrder ==
    pc = "done" /\ outcome.status = "resolved" /\ Len(settledOrder) = 2 =>
        outcome.value = ListFor(branch["executeVectorSearch"].context.vectorResults,
                                branch["executeKeywordSearch"].context.keywordResults)

\* the keyword branch completed before the vector branch, both with results,
\* and the call resolved with the fused list of more than one entry
C25_Witness ==
    /\ pc = "done"
    /\ outcome.status = "resolved"
    /\ settledOrder = <<"executeKeywordSearch", "executeVectorSearch">>
    /\ branch["executeVectorSearch"].context.vectorResults # <<>>
    /\ branch["executeKeywordSearch"].context.keywordResults # <<>>
    /\ Len(outcome.value) > 1
    /\ outcome.value = context.combinedResults

(***************************************************************************)
(* Interleaved calls on the vector index                                   *)
(***************************************************************************)
\* the number of entries of a document in an index
EntriesOf(index, documentId) ==
    Len(SelectSeq(index, LAMBDA item : item.documentId = documentId))

\* the index holds some but not all chunks of the latest addToVectorStore call
\* for the document, which had no entry when the call was made
PartlyIndexed(documentId) ==
    /\ documentId \notin addCall.before
    /\ EntriesOf(vectorIndex, documentId) > 0
    /\ EntriesOf(vectorIndex, documentId) < addCall.chunks[documentId]

\* C26: once an addToVectorStore call has resolved, the index holds every chunk
\* of the call or no chunk of the document, whatever removeFromVectorStore
\* and search calls ran in between; and no search returns a chunk of a
\* document of which only part of the chunks of the call are indexed.
C26_AtomicMutations ==
    /\ [](addResult = "resolved" => \A d \in DocumentIds : ~PartlyIndexed(d))
    /\ [][SearchResolves =>
              \A i \in 1..Len(searchOut'.results) :
                  ~PartlyIndexed(searchOut'.results[i].documentId)]_vars

C32_RemoteFetchFillsBoth ==
    /\ [][\A call \in Callers :
              (/\ db = "open"
               /\ loads[call].pc = "indexedDB"
               /\ loads[call].shardId \in RemoteShards
               /\ \A r \in shardStore : r.shardId # loads[call].shardId
               /\ IndexedDBSettles(call))
                  => loads'[call].pc = "fetch"]_vars
    /\ [][\A call \in Callers :
              (/\ db = "open"
               /\ loads[call].fetch = "ok"
               /\ SaveSettles(call)
               /\ loads'[call].pc = "returned")
                  => /\ CacheHas(cache', loads[call].shardId)
                     /\ ShardBuffer(loads[call].shardId) \in shardStore']_vars

\* the call has asked the remote source for its shard
Fetching(call) == loads[call].pc \in {"fetch", "body", "updateCache", "save"}

\* C36: two overlapping loadShard calls for the same shard do not both ask
\* the remote source for it.
C36_SingleFetch ==
    \A c1, c2 \in Callers :
        (c1 # c2 /\ Fetching(c1) /\ Fetching(c2))
            => loads[c1].shardId # loads[c2].shardId

(***************************************************************************)
(* Eviction in updateCache                                                 *)
(***************************************************************************)
\* the entries of other shards an insertion of the shard evicted and kept
EvictedBy(before, after, shardId) ==
    {before[i] : i \in {j \in 1..Len(before) :
                            /\ before[j].shardId # shardId
                            /\ ~CacheHas(after, before[j].shardId)}}

KeptBy(before, after, shardId) ==
    {before[i] : i \in {j \in 1..Len(before) :
                            /\ before[j].shardId # shardId
                            /\ CacheHas(after, before[j].shardId)}}

\* the insertion of the call evicted in the order of lastAccessed, and not
\* more than the new data needed
LeastRecentlyUsed(call) ==
    LET shardId == loads[call].shardId
        data    == loads'[call].buffer
        evicted == EvictedBy(cache, cache', shardId)
        kept    == KeptBy(cache, cache', shardId)
    IN  /\ \A e \in evicted, k \in kept : e.lastAccessed <= k.lastAccessed
        /\ evicted # {} =>
               \E e \in evicted :
                   getCacheSize(cache) - getCacheSize(
                       SelectSeq(cache, LAMBDA c : c \in evicted \ {e}))
                       + data.byteLength > MAX_CACHE_SIZE

\* C33: an insertion evicts entries in the order of their lastAccessed (the
\* evicted ones are not more recent than the ones kept), evicts no more than
\* the new entry needs to fit MAX_CACHE_SIZE, and when an insertion returns
\* the entry it inserted is in the cache.
C33_StrictLRU ==
    /\ [][\A call \in Callers :
              (ArrayBufferResolves(call) /\ ~hung') => LeastRecentlyUsed(call)]_vars
    /\ [][\A call \in Callers :
              (SaveSettles(call) /\ loads'[call].pc = "returned")
                  => CacheHas(cache', loads[call].shardId)]_vars

RECURSIVE ChunksOfCall(_)
ChunksOfCall(documentIds) ==
    IF documentIds = {} THEN 0
    ELSE LET d == CHOOSE x \in documentIds : TRUE
         IN  addCall.chunks[d] + ChunksOfCall(documentIds \ {d})

\* C35: when an addToVectorStore call fails, the index is as it was before
\* the call: the call has pushed none of its chunks (no other call changes
\* the index in SpecSearch).
C35_FailedAddLeavesIndex ==
    [][AddToVectorStoreFails => Len(adding) = ChunksOfCall(DocumentIds)]_vars

(***************************************************************************)
(* rankAndCombineResults: the entries of the fused list                    *)
(***************************************************************************)
ChunkIdsOf(list) == {list[i].chunkId : i \in 1..Len(list)}

\* C37: the fused list holds each chunk id at most once and has as many
\* entries as there are distinct chunk ids in the two input lists, also when
\* an input list repeats a chunk id.
C37_DistinctChunks ==
    fusePc = "done" =>
        /\ \A i, j \in 1..Len(fuseOut) : i # j => fuseOut[i].chunkId # fuseOut[j].chunkId
        /\ Len(fuseOut) = Cardinality(ChunkIdsOf(fuseVector) \cup ChunkIdsOf(fuseKeyword))

\* both input lists repeat a chunk id, and the two ids make two entries
C37_Witness ==
    /\ fusePc = "done"
    /\ Len(fuseVector) = 2 /\ fuseVector[1].chunkId = fuseVector[2].chunkId
    /\ Len(fuseKeyword) = 2 /\ fuseKeyword[1].chunkId = fuseKeyword[2].chunkId
    /\ fuseVector[1].chunkId # fuseKeyword[1].chunkId
    /\ Len(fuseOut) = 2

\* C38: rankAndCombineResults leaves the objects of both input lists as they
\* were (no score and no matchPercentage of an input entry is written), and
\* the list it returns is the sorted values of its map.
C38_InputsUnchanged ==
    [][Fuse => /\ fuseVector' = fuseVector
               /\ fuseKeyword' = fuseKeyword
               /\ fuseOut' = SortByScoreDesc(MapValues(fuseVector, fuseKeyword))]_vars

\* a chunk occurs in both lists, so the blend assigned score and
\* matchPercentage of an object in the map, and the fused score differs from
\* the scores of the input entries
C38_Witness ==
    /\ fusePc = "done"
    /\ Len(fuseOut) = 1
    /\ \E i \in 1..Len(fuseVector), j \in 1..Len(fuseKeyword) :
           /\ fuseVector[i].chunkId = fuseKeyword[j].chunkId
           /\ fuseOut[1].score # fuseVector[i].score
           /\ fuseOut[1].score # fuseKeyword[j].score
           /\ fuseOut[1].matchPercentage # fuseVector[i].matchPercentage

\* C39: saveDocument(document) leaves the caller's document as it was (its
\* content.chunks are the same afterwards), the call always settles: it
\* never reaches a point where its promise is pending and no handler that
\* resolves or rejects it is left to run, and when it resolves every chunk of
\* the document is in the chunks store.
C39_SaveKeepsDocument ==
    [][/\ savePc # "idle" => callerDocument' = callerDocument
       /\ savePc' # "hung"
       /\ savePc' = "resolved" =>
              \A i \in 1..Len(callerDocument.content.chunks) :
                  callerDocument.content.chunks[i] \in chunksStore']_vars
====
